---- MODULE Spec2Model ----
(***************************************************************************)
(* Model of the speed-test measurement engine                              *)
(* (src/speedtest_client/engine.py, data_structures.py, http_client.py).   *)
(*                                                                         *)
(* Conventions.                                                            *)
(*  - Python None is modelled by None (-1) for latency and distance, by 0  *)
(*    for an object reference, and by the empty sequence for ClientInfo.   *)
(*  - Server objects live in `heap`, indexed by object reference, so that  *)
(*    the list, the id index, best_server and result.server share one      *)
(*    object as they do in Python.                                         *)
(*  - A location is a latitude in whole degrees on one meridian;           *)
(*    distance_to is then proportional to the absolute difference.         *)
(*  - A float speed total*8.0/elapsed is kept as the exact pair            *)
(*    <<numerator, denominator>>; 0.0 is <<0, 1>>.                         *)
(*  - timeit.default_timer() has an undefined origin; `clock` is read      *)
(*    relative to the start of the running transfer phase.                 *)
(***************************************************************************)
EXTENDS Integers, Sequences, FiniteSets, TLC

(* ---- program constants (src/speedtest_client/config.py) ---- *)
DEFAULT_THREADS_DOWNLOAD == 2
DEFAULT_THREADS_UPLOAD == 2
MAX_SERVERS_TO_TEST == 5
DOWNLOAD_SIZES == <<350, 500, 750, 1000, 1500, 2000, 2500, 3000, 3500, 4000>>
UPLOAD_SIZES == <<32768, 65536, 131072, 262144, 524288, 1048576, 7340032>>
DOWNLOAD_TEST_DURATION == 10
UPLOAD_TEST_DURATION == 10
(* engine.py *)
DOWNLOAD_REPETITIONS == 4
UPLOAD_RATIO == 5
UPLOAD_JOB_CAP == 50
PING_WORKERS == 5
PREFIX_LEN == 9
CHARS_LEN == 36
(* http_client.py *)
LATENCY_ATTEMPTS == 3
CHUNK_SIZE == 10240
FAILED_TIMING == 3600000

(* ---- bounds of the model ---- *)
MaxHeld == 2
MaxLimit == 3
MaxAttempts == 3
MaxPayloadSize == 60
MaxChunks == 2
MaxDownloadJobs == 3
MaxUploadJobs == 1
MaxJobBytes == 1
TickStep == 10
MaxClock == 20
MaxObservedJobs == 2  \* jobs of a phase when the callbacks are followed
MaxDelta == 2         \* largest byte count one job hands to the callback
MaxHistorySize == 3   \* largest max_size of a TestHistory
MaxAdds == 5          \* calls of TestHistory.add in one behaviour
MaxRequests == 3      \* start requests made to the window

None == -1
NoRef == 0
InfLat == 999
BadNum == -999
Infinity == 1000000

Min(a, b) == IF a < b THEN a ELSE b
Abs(x) == IF x < 0 THEN 0 - x ELSE x
Range(s) == {s[i] : i \in 1..Len(s)}
Take(s, n) == SubSeq(s, 1, Min(Len(s), IF n < 0 THEN 0 ELSE n))

RECURSIVE SumSeq(_)
SumSeq(s) == IF s = <<>> THEN 0 ELSE s[1] + SumSeq(Tail(s))

VARIABLES
    pc,            \* position of run_test / state of the engine's state machine
    client_info,   \* self.client_info: <<>> or <<[lat |-> ..]>>
    heap,          \* Server objects by reference
    servers,       \* self.servers: [list |-> _servers, dict |-> _server_dict]
    best_server,   \* self.best_server (reference)
    stop_flag,     \* self._stop
    result,        \* the TestResult of the run
    probe,         \* find_best_server: state of each submitted ping future
    orch,          \* position of the orchestrator inside a transfer phase
    futs,          \* transfer phase: futures in submission order
    total_bytes,   \* local total_bytes of test_download / test_upload
    delivered,     \* sum of the deltas given to the running phase's callback
    deadline,      \* local deadline
    start,         \* local start
    clock,         \* timeit.default_timer()
    netlog,        \* history: network operations issued, in order
    stopRequested, \* history: stop() was called during this run
    produced,      \* history: sum of the bytes returned by the phase's jobs
    entered,       \* history: states of the run's state machine, in order
    punctual,      \* history: every job of the phase so far ran a transfer
                   \* that ended by the deadline
    call,          \* a direct call of a registry / transport method: its
                   \* name, arguments and position
    m_rtts,        \* measure_latency: outcome of each round trip made so far
    d_total,       \* download_file: local total
    d_chunks,      \* history: sizes of the chunks download_file has read
    ret,           \* the value the last direct call returned
    frontend,      \* who passed callbacks to run_test: "gui", "cli", "none"
    gui,           \* SpeedTestGUI: _phase, _dl_bytes, _ul_bytes
    cli,           \* cli.run: spinner, dl_bar, ul_bar (a bar is its _bytes)
    cb,            \* per pool thread: position inside progress_cb(n)
    jobs_left,     \* jobs of the phase no worker has taken yet
    status,        \* history: the status messages emitted, in order
    deltas,        \* history: per counter, sum of the deltas passed to the
                   \* callbacks since the counter was last reset
    app,           \* SpeedTestGUI: _testing, its run threads, Tk's queue of
                   \* callbacks scheduled with after()
    history,       \* a TestHistory: <<>> or <<[max_size, results, index]>>
    n_added        \* history: number of calls of TestHistory.add so far

vars == <<pc, client_info, heap, servers, best_server, stop_flag, result,
          probe, orch, futs, total_bytes, delivered, deadline, start, clock,
          netlog, stopRequested, produced, entered, punctual,
          call, m_rtts, d_total, d_chunks, ret,
          frontend, gui, cli, cb, jobs_left, status, deltas,
          app, history, n_added>>

engineVars == <<client_info, heap, servers, best_server>>
transferVars == <<orch, futs, total_bytes, delivered, deadline, start, clock,
                  produced, punctual>>
unitVars == <<call, m_rtts, d_total, d_chunks, ret>>
appVars == <<app, history, n_added>>
obsVars == <<frontend, gui, cli, cb, jobs_left, status, deltas, appVars>>
runVars == <<pc, client_info, best_server, stop_flag, result, probe,
             transferVars, netlog, stopRequested, entered, obsVars>>
engineRun == <<pc, client_info, best_server, stop_flag, result, probe,
               transferVars, netlog, stopRequested, entered,
               frontend, gui, cli, cb, jobs_left, status, deltas,
               heap, servers, m_rtts, d_total, d_chunks>>

(* ======================= data_structures.py ============================ *)

\* Location.distance_to: raises ValueError (math domain error) when a
\* latitude is infinite; otherwise proportional to the difference.
distance_raises(a, b) == a = InfLat \/ b = InfLat
distance_to(a, b) == Abs(b - a)

\* Server(...) as built by get_servers; latency and distance start unset.
Server(id, lat, url) ==
    [id |-> id, lat |-> lat, url |-> url, latency |-> None, distance |-> None]

\* TestResult()
TestResult ==
    [download_speed |-> <<0, 1>>, upload_speed |-> <<0, 1>>, ping |-> 0,
     server |-> NoRef, client |-> <<>>, bytes_sent |-> 0, bytes_received |-> 0]

\* ServerList()
ServerList == [list |-> <<>>, dict |-> <<>>]

\* ServerList.add: append to the list, overwrite the id index.
add(sl, h, ref) ==
    [list |-> Append(sl.list, ref),
     dict |-> (h[ref].id :> ref) @@ sl.dict]

\* ServerList.get_by_id
get_by_id(sl, id) == IF id \in DOMAIN sl.dict THEN sl.dict[id] ELSE NoRef

\* a first loop that leaves a distance already stored alone
StoreDistancesOnce(h, sl, origin) ==
    [r \in DOMAIN h |->
        IF r \in Range(sl.list) /\ h[r].distance = None
        THEN [h[r] EXCEPT !.distance = distance_to(origin, h[r].lat)]
        ELSE h[r]]

\* get_closest, first loop: store the distance in every held server.
StoreDistances(h, sl, origin) ==
    [r \in DOMAIN h |->
        IF r \in Range(sl.list)
        THEN [h[r] EXCEPT !.distance = distance_to(origin, h[r].lat)]
        ELSE h[r]]

\* key=lambda s: s.distance or float('inf')
SortKey(h, r) ==
    IF h[r].distance = None \/ h[r].distance = 0 THEN Infinity ELSE h[r].distance

\* sorted(): stable, ascending by key.
RECURSIVE InsertStable(_, _, _)
InsertStable(h, r, s) ==
    IF s = <<>> THEN <<r>>
    ELSE IF SortKey(h, r) < SortKey(h, s[1]) THEN <<r>> \o s
    ELSE <<s[1]>> \o InsertStable(h, r, Tail(s))

RECURSIVE Sorted(_, _)
Sorted(h, s) ==
    IF s = <<>> THEN <<>>
    ELSE InsertStable(h, s[Len(s)], Sorted(h, SubSeq(s, 1, Len(s) - 1)))

\* get_closest without the slice
get_closest_all(h, sl, origin, limit) ==
    Sorted(StoreDistances(h, sl, origin), sl.list)

\* ServerList.get_closest: the returned list (over the heap with distances).
get_closest(h, sl, origin, limit) ==
    Take(Sorted(StoreDistances(h, sl, origin), sl.list), limit)

get_closest_raises(h, sl, origin) ==
    \E i \in 1..Len(sl.list) : distance_raises(origin, h[sl.list[i]].lat)

\* min() that keeps the last of equal keys
RECURSIVE LastMin(_, _, _)
LastMin(h, s, best) ==
    IF s = <<>> THEN best
    ELSE IF h[s[1]].latency <= h[best].latency
         THEN LastMin(h, Tail(s), s[1])
         ELSE LastMin(h, Tail(s), best)

\* ServerList.get_best: min() keeps the first of equal keys.
RECURSIVE FirstMin(_, _, _)
FirstMin(h, s, best) ==
    IF s = <<>> THEN best
    ELSE IF h[s[1]].latency < h[best].latency
         THEN FirstMin(h, Tail(s), s[1])
         ELSE FirstMin(h, Tail(s), best)

\* get_best without the filter on measured servers
AllHeld(h, s) == s

\* valid_servers = [s for s in self._servers if s.latency is not None]
MeasuredOnly(h, s) == SelectSeq(s, LAMBDA r : h[r].latency # None)

get_best(h, sl) ==
    LET valid == MeasuredOnly(h, sl.list)
    IN IF valid = <<>> THEN NoRef ELSE FirstMin(h, Tail(valid), valid[1])

(* ========================= http_client.py ============================== *)

\* urlparse(url).port raises ValueError for a port that is not a number in
\* 0..65535; Request(url) raises ValueError for a URL without a scheme.
UrlKinds == {"ok", "badport", "noscheme"}
port_raises(url) == url = "badport"
request_raises(url) == url = "noscheme"

\* round(x / d, 3) in thousandths, for integers x >= 0 and d > 0
\* (round-half-even, as Python's round).
RoundDiv(n, d) ==
    LET q == n \div d
        r == n % d
    IN IF 2 * r > d \/ (2 * r = d /\ q % 2 = 1) THEN q + 1 ELSE q

Round3(x, d) == (x \div d) * 1000 + RoundDiv((x % d) * 1000, d)

\* HTTPClient.get: (data, True), or (b'', False) for anything raised inside
\* its try block, building the request included.
get(url, data, fault) ==
    IF fault \/ request_raises(url) \/ port_raises(url)
    THEN [data |-> "", ok |-> FALSE]
    ELSE [data |-> data, ok |-> TRUE]

\* a failed attempt recorded as 0 ms
TimingDropped(t) == IF t = None THEN 0 ELSE t

\* One attempt of measure_latency: a round trip that took t ms, or a
\* failure (None), which is recorded as 3_600_000.0.
Timing(t) == IF t = None THEN FAILED_TIMING ELSE t

Timings(rtts) == [i \in 1..Len(rtts) |-> Timing(rtts[i])]

\* HTTPClient.measure_latency after URL parsing: rtts holds the outcome of
\* each of the `attempts` round trips. The value is in thousandths of a ms.
measure_latency(rtts) ==
    LET timings == Timings(rtts)
        valid == SelectSeq(timings, LAMBDA t : t < FAILED_TIMING)
    IN IF valid = <<>> THEN None
       ELSE Round3(SumSeq(timings), Len(rtts) * 2)

\* download_file giving up what it read when the stream fails
DownloadReturnZeroOnError(n, how) == IF how = "error" THEN 0 ELSE n

\* download_file, lines 112-121: the loop ends by EOF (break) or by an
\* exception (pass); both reach `return total`.
DownloadReturn(n, how) == n

\* HTTPClient.download_file: chunks are the sizes of the chunks read before
\* EOF or before the first error; both ends return the running total.
download_file(chunks) == SumSeq(chunks)

\* upload_data reporting the payload length whatever happened
upload_data_unacknowledged(len, ok) == len

\* HTTPClient.upload_data: (len(data), True) on success, (0, False) otherwise.
upload_data(len, ok) == IF ok THEN len ELSE 0

(* ============================ engine.py ================================ *)

\* _make_upload_payload, lines 31-32 (one string per byte)
chars ==
    <<"0", "1", "2", "3", "4", "5", "6", "7", "8", "9", "A", "B", "C", "D",
      "E", "F", "G", "H", "I", "J", "K", "L", "M", "N", "O", "P", "Q", "R",
      "S", "T", "U", "V", "W", "X", "Y", "Z">>
prefix == <<"c", "o", "n", "t", "e", "n", "t", "1", "=">>

\* b * n for a bytes object b
RECURSIVE BytesTimes(_, _)
BytesTimes(b, n) == IF n <= 0 THEN <<>> ELSE b \o BytesTimes(b, n - 1)

\* a slice that keeps everything
SliceAll(b, k) == b

\* b[:k] for a bytes object b
Slice(b, k) ==
    IF k >= 0 THEN SubSeq(b, 1, Min(Len(b), k))
    ELSE IF Len(b) + k > 0 THEN SubSeq(b, 1, Len(b) + k) ELSE <<>>

\* _make_upload_payload(size), lines 33-35
make_upload_payload(size) ==
    LET body_len == size - Len(prefix)
        repeats == (body_len \div Len(chars)) + 1
    IN prefix \o Slice(BytesTimes(chars, repeats), body_len)

\* len(b[:k]) for a bytes object of length n
SliceLen(n, k) == IF k >= 0 THEN Min(n, k) ELSE IF n + k > 0 THEN n + k ELSE 0

\* len(_make_upload_payload(size))
PayloadLen(size) ==
    LET body_len == size - PREFIX_LEN
        repeats == (body_len \div CHARS_LEN) + 1
        filler == IF repeats > 0 THEN CHARS_LEN * repeats ELSE 0
    IN PREFIX_LEN + SliceLen(filler, body_len)

\* test_download: urls, one per size and repetition (the size identifies it).
RECURSIVE Urls(_)
Urls(sizes) ==
    IF sizes = <<>> THEN <<>>
    ELSE [i \in 1..DOWNLOAD_REPETITIONS |-> sizes[1]] \o Urls(Tail(sizes))

\* test_upload: up_sizes = UPLOAD_SIZES[ratio - 1:], one payload per entry
\* (a payload is represented by its length).
\* a payload for every configured size
UpSizesAll(sizes) == sizes

\* UPLOAD_SIZES[ratio - 1:]
UpSizesOf(sizes) == SubSeq(sizes, UPLOAD_RATIO, Len(sizes))

UpSizes == UpSizesOf(UPLOAD_SIZES)
Payloads == [i \in 1..Len(UpSizes) |-> PayloadLen(UpSizes[i])]

\* while len(work_queue) < 50: work_queue.extend(payloads)
RECURSIVE WorkQueue(_, _, _)
WorkQueue(q, payloads, cap) ==
    IF Len(q) < cap /\ payloads # <<>>
    THEN WorkQueue(q \o payloads, payloads, cap)
    ELSE q

\* The jobs a phase submits; the model keeps the first MaxDownloadJobs /
\* MaxUploadJobs of the list the code builds.
DownloadJobs == Take(Urls(DOWNLOAD_SIZES), MaxDownloadJobs)
UploadJobs == Take(WorkQueue(<<>>, Payloads, UPLOAD_JOB_CAP), MaxUploadJobs)

\* the quotient without the guard of lines 201-202 / 257-258
SpeedUnguarded(total, elapsed) == <<total * 8, elapsed>>

\* (total_bytes * 8.0) / elapsed, 0.0 when elapsed <= 0 or nothing counted
Speed(total, elapsed) ==
    IF elapsed <= 0 \/ total = 0 THEN <<0, 1>> ELSE <<total * 8, elapsed>>

\* What test_download / test_upload return: 0.0 at once when no server was
\* selected (lines 161-162 / 215-216), the speed otherwise.
PhaseSpeed(best, total, elapsed) ==
    IF best = NoRef THEN <<0, 1>> ELSE Speed(total, elapsed)

(* ---- the transport's answers (inputs of the model) ---- *)

\* A <server> element: raw id, raw lat (BadNum: not a number) and url.
Rec(id, lat, url) == [id |-> id, lat |-> lat, url |-> url]

Documents ==
    { <<>>,
      << Rec(BadNum, 1, "ok") >>,
      << Rec(1, 2, "ok"), Rec(2, 1, "ok") >>,
      << Rec(1, 1, "badport"), Rec(2, BadNum, "ok"), Rec(3, 2, "noscheme") >>,
      << Rec(1, InfLat, "ok") >> }

\* http.get answers for a directory URL: (data, ok); data is b'', bytes
\* that are not XML, XML declaring an unknown encoding, or a document.
DirectoryResponses ==
    { [ok |-> FALSE, kind |-> "empty", doc |-> <<>>],
      [ok |-> TRUE, kind |-> "empty", doc |-> <<>>],
      [ok |-> TRUE, kind |-> "malformed", doc |-> <<>>],
      [ok |-> TRUE, kind |-> "badenc", doc |-> <<>>] }
    \cup { [ok |-> TRUE, kind |-> "xml", doc |-> d] : d \in Documents }

\* http.get answers for the config URL; "client" carries the raw lat.
ConfigResponses ==
    { [ok |-> FALSE, kind |-> "empty", lat |-> 0],
      [ok |-> TRUE, kind |-> "empty", lat |-> 0],
      [ok |-> TRUE, kind |-> "malformed", lat |-> 0],
      [ok |-> TRUE, kind |-> "noclient", lat |-> 0],
      [ok |-> TRUE, kind |-> "client", lat |-> BadNum],
      [ok |-> TRUE, kind |-> "client", lat |-> 0],
      [ok |-> TRUE, kind |-> "client", lat |-> InfLat] }

\* Round-trip outcomes of one probe (ms per attempt, None: attempt failed).
ProbeRtts == {[i \in 1..LATENCY_ATTEMPTS |-> t] : t \in {None, 20, 40}}

\* No direct call is in progress.
NoCall == [name |-> "none"]

\* A thread of the pool that is not inside a progress callback.
IdleThread == [pos |-> "idle", n |-> 0, reg |-> 0]

\* SpeedTestGUI._start_test, lines 243-245
GuiStart == [phase |-> "idle", dl_bytes |-> 0, ul_bytes |-> 0]

\* cli.run, lines 146-148: spinner = None, dl_bar = None, ul_bar = None
CliStart == [spinner |-> FALSE, dl_bar |-> None, ul_bar |-> None]

\* run_test called with the callbacks of the given front end.
Observed(by) ==
    /\ frontend = by
    /\ gui = GuiStart
    /\ cli = CliStart
    /\ cb = [w \in 1..DEFAULT_THREADS_DOWNLOAD |-> IdleThread]
    /\ jobs_left = 0
    /\ status = <<>>
    /\ deltas = [download |-> 0, upload |-> 0]

(* ---- initial state: a fresh engine, run_test not yet called ---- *)
Fresh ==
    /\ pc = "Idle"
    /\ client_info = <<>>
    /\ heap = <<>>
    /\ servers = ServerList
    /\ best_server = NoRef
    /\ stop_flag = FALSE
    /\ result = TestResult
    /\ probe = <<>>
    /\ orch = "none"
    /\ futs = <<>>
    /\ total_bytes = 0
    /\ delivered = 0
    /\ deadline = 0
    /\ start = 0
    /\ clock = 0
    /\ netlog = <<>>
    /\ stopRequested = FALSE
    /\ produced = 0
    /\ entered = <<"Idle">>
    /\ punctual = TRUE
    /\ call = NoCall
    /\ m_rtts = <<>>
    /\ d_total = 0
    /\ d_chunks = <<>>
    /\ ret = <<>>

\* SpeedTestGUI.__init__, line 97, and ModernButton.__init__, before any
\* click: no run thread, nothing scheduled with after()
AppStart == [testing |-> FALSE, enabled |-> TRUE, threads |-> <<>>,
             queue |-> <<>>, requests |-> 0]

\* No window and no TestHistory have been made.
NoWindow ==
    /\ app = AppStart
    /\ history = <<>>
    /\ n_added = 0

\* The engine used on its own: no callbacks are passed to run_test.
Init == Fresh /\ Observed("none") /\ NoWindow

Enter(state) ==
    /\ pc' = state
    /\ entered' = Append(entered, state)

\* run_test, lines 274-276: result = TestResult(), first status message.
RunTest ==
    /\ pc = "Idle"
    /\ result' = TestResult
    /\ Enter("FetchingConfig")
    /\ UNCHANGED <<engineVars, stop_flag, probe, transferVars, netlog,
                   stopRequested>>
    /\ UNCHANGED <<unitVars, obsVars>>

\* get_configuration's return value for an answer of the transport.
ConfigOk(resp) ==
    /\ resp.ok
    /\ resp.kind = "client"
    /\ resp.lat # BadNum

\* the assignment of line 280 left out
WithClientDropped(res, ci) == res

\* run_test, line 280: result.client = self.client_info
WithClient(res, ci) == [res EXCEPT !.client = ci]

\* run_test, lines 277-282, with get_configuration.
GetConfiguration ==
    /\ pc = "FetchingConfig"
    /\ \E resp \in ConfigResponses :
        /\ netlog' = Append(netlog, "config")
        /\ IF ConfigOk(resp)
           THEN /\ client_info' = << [lat |-> resp.lat] >>
                /\ result' = WithClient(result, client_info')
                /\ Enter("FetchingServers")
           ELSE /\ Enter("Failed")
                /\ UNCHANGED <<client_info, result>>
    /\ UNCHANGED <<heap, servers, best_server, stop_flag, probe, transferVars,
                   stopRequested>>
    /\ UNCHANGED <<unitVars, obsVars>>

\* get_servers, lines 96-112: one Server per well-formed element, in
\* document order; the object reference is the element's position.
WellFormed(rec) == rec.id # BadNum /\ rec.lat # BadNum

ParsedHeap(doc) ==
    [i \in 1..Len(doc) |-> Server(doc[i].id, doc[i].lat, doc[i].url)]

RECURSIVE AddAll(_, _, _)
AddAll(sl, h, refs) ==
    IF refs = <<>> THEN sl ELSE AddAll(add(sl, h, refs[1]), h, Tail(refs))

ParsedRefs(doc) ==
    SelectSeq([i \in 1..Len(doc) |-> i], LAMBDA i : WellFormed(doc[i]))

\* get_servers, lines 83-88: the answer the for/else loop ends with.
Usable(resp) == resp.ok /\ resp.kind # "empty"

\* both directory URLs requested whatever the first answer is
RequestsBoth(r1) == <<"servers", "fallback">>

\* get_servers, lines 83-86: the URLs requested, in order; the loop breaks
\* at the first answer that is ok and not empty.
Requests(r1) ==
    IF Usable(r1) THEN <<"servers">> ELSE <<"servers", "fallback">>

\* run_test, lines 284-289, with get_servers; r1 and r2 are the answers of
\* the primary and of the fallback URL.
GetServersWith(r1, r2) ==
    /\ pc = "FetchingServers"
    /\  LET resp == IF Len(Requests(r1)) = 1 THEN r1 ELSE r2
            parsed == AddAll(ServerList, ParsedHeap(resp.doc), ParsedRefs(resp.doc))
            h0 == ParsedHeap(resp.doc)
            origin == client_info[1].lat
            filter == client_info # <<>> /\ Len(parsed.list) > 0
            h1 == IF filter THEN StoreDistances(h0, parsed, origin) ELSE h0
            kept == IF filter
                    THEN AddAll(ServerList, h1,
                                get_closest(h0, parsed, origin, MAX_SERVERS_TO_TEST))
                    ELSE parsed
        IN /\ netlog' = netlog \o Requests(r1)
           /\ IF ~Usable(resp) \/ resp.kind = "malformed"
              THEN \* return False before self.servers is replaced
                   /\ Enter("Failed")
                   /\ UNCHANGED <<heap, servers, probe>>
              ELSE IF resp.kind = "badenc"
              THEN \* ET.fromstring raises LookupError, not ParseError
                   /\ Enter("Raised")
                   /\ UNCHANGED <<heap, servers, probe>>
              ELSE IF filter /\ get_closest_raises(h0, parsed, origin)
              THEN \* distance_to raises ValueError inside get_closest
                   /\ Enter("Raised")
                   /\ heap' = h0
                   /\ servers' = parsed
                   /\ UNCHANGED probe
              ELSE /\ heap' = h1
                   /\ servers' = kept
                   /\ IF Len(kept.list) > 0
                      THEN /\ Enter("ProbingLatency")
                           /\ probe' = [i \in 1..Len(kept.list) |-> "queued"]
                      ELSE /\ Enter("Failed")
                           /\ UNCHANGED probe
    /\ UNCHANGED <<client_info, best_server, stop_flag, result, transferVars,
                   stopRequested>>
    /\ UNCHANGED <<unitVars, obsVars>>

GetServers ==
    \E r1 \in DirectoryResponses, r2 \in DirectoryResponses :
        GetServersWith(r1, r2)

(* ---- find_best_server ---- *)

Count(seq, st) == Cardinality({i \in 1..Len(seq) : seq[i] = st})

\* A pool thread takes the oldest queued ping and runs it up to the round
\* trips; ping() does not look at the stop flag. A URL whose port does not
\* parse makes measure_latency raise before any round trip.
PingStart ==
    /\ pc = "ProbingLatency"
    /\ \E i \in 1..Len(probe) :
        /\ probe[i] = "queued"
        /\ \A k \in 1..(i - 1) : probe[k] # "queued"
        /\ Count(probe, "running") < PING_WORKERS
        /\ IF port_raises(heap[servers.list[i]].url)
           THEN /\ probe' = [probe EXCEPT ![i] = "settled"]
                /\ UNCHANGED netlog
           ELSE /\ probe' = [probe EXCEPT ![i] = "running"]
                /\ netlog' = Append(netlog, "latency")
    /\ UNCHANGED <<pc, entered, engineVars, stop_flag, result, transferVars,
                   stopRequested>>
    /\ UNCHANGED <<unitVars, obsVars>>

\* ping(), lines 134-137: the round trips end and the latency is stored.
PingFinish ==
    /\ pc = "ProbingLatency"
    /\ \E i \in 1..Len(probe), rtts \in ProbeRtts :
        /\ probe[i] = "running"
        /\ probe' = [probe EXCEPT ![i] = "settled"]
        /\ heap' = [heap EXCEPT ![servers.list[i]].latency = measure_latency(rtts)]
    /\ UNCHANGED <<pc, entered, client_info, servers, best_server, stop_flag,
                   result, transferVars, netlog, stopRequested>>
    /\ UNCHANGED <<unitVars, obsVars>>

\* result.ping = best.latency or 0.0
LatencyOrZero(l) == IF l = None \/ l = 0 THEN 0 ELSE l

\* run_test going on without a best server
AfterProbingAlways(best) == "Downloading"

\* run_test, lines 290-293: `if not best: ... return result`
AfterProbing(best) == IF best = NoRef THEN "Failed" ELSE "Downloading"

\* leaving the pool as soon as one ping has settled
AnySettled == \E i \in 1..Len(probe) : probe[i] = "settled"

\* find_best_server, lines 139-145: as_completed has handed over every
\* future and the with block has ended, so every ping returned or raised.
AllSettled == \A i \in 1..Len(probe) : probe[i] = "settled"

\* find_best_server, lines 141-148, and run_test, lines 290-303.
SelectBest ==
    /\ pc = "ProbingLatency"
    /\ AllSettled
    /\ LET best == get_best(heap, servers)
       IN /\ best_server' = best
          /\ Enter(AfterProbing(best))
          /\ IF pc' = "Failed"
             THEN UNCHANGED <<result, orch>>
             ELSE /\ result' = [result EXCEPT
                                   !.server = best,
                                   !.ping = IF best = NoRef THEN 0
                                            ELSE LatencyOrZero(heap[best].latency)]
                  /\ orch' = "init"
    /\ UNCHANGED <<client_info, heap, servers, stop_flag, probe, futs,
                   total_bytes, delivered, deadline, start, clock,
                   produced, punctual, netlog, stopRequested>>
    /\ UNCHANGED <<unitVars, obsVars>>

(* ---- test_download / test_upload ---- *)

Raised == -2

Phase == IF pc = "Downloading" THEN "download" ELSE "upload"
InTransfer == pc \in {"Downloading", "Uploading"}
\* a pool with one thread more than max_workers
ThreadsOneMore == IF pc = "Downloading" THEN DEFAULT_THREADS_DOWNLOAD + 1
                  ELSE DEFAULT_THREADS_UPLOAD + 1

\* ThreadPoolExecutor(max_workers=threads), threads left at its default
Threads == IF pc = "Downloading" THEN DEFAULT_THREADS_DOWNLOAD
           ELSE DEFAULT_THREADS_UPLOAD
Duration == IF pc = "Downloading" THEN DOWNLOAD_TEST_DURATION
            ELSE UPLOAD_TEST_DURATION
Jobs == IF pc = "Downloading" THEN DownloadJobs ELSE UploadJobs

Future(job) == [st |-> "pending", val |-> 0, job |-> job]

StatesOf(st) == {i \in 1..Len(futs) : futs[i].st = st}

\* timeit.default_timer() > deadline or self._stop.is_set()
Expired == clock > deadline
CheckFails == Expired \/ stop_flag

\* Chunk sizes download_file may read before EOF or an error.
ChunkStreams == UNION {[1..k -> {1}] : k \in 0..MaxJobBytes}

\* What a transfer that was started may return.
Outcomes(job) ==
    IF pc = "Downloading"
    THEN {download_file(c) : c \in ChunkStreams}
    ELSE {upload_data(job, ok) : ok \in BOOLEAN}

\* The bytes one observed completion adds: f.result(), or nothing when the
\* job raised.
ResultBytes(val) == IF val = Raised THEN 0 ELSE val

\* the addition placed before the deadline/cancellation check
CountedEvenIfLate(total, val, fails) == total + ResultBytes(val)

\* total_bytes after the loop body ran for a completed future
Counted(total, val, fails) == IF fails THEN total ELSE total + ResultBytes(val)

\* Lines 161-188 / 215-245: guard, base URL, _stop.clear(), job list,
\* deadline, start, submission of every job.
TransferBegin ==
    /\ InTransfer
    /\ orch = "init"
    /\ IF best_server = NoRef
       THEN /\ orch' = "join"
            /\ UNCHANGED <<pc, entered, stop_flag, futs, deadline, start,
                           clock>>
       ELSE IF pc = "Downloading" /\ port_raises(heap[best_server].url)
       THEN /\ Enter("Raised")
            /\ UNCHANGED <<stop_flag, orch, futs, deadline, start, clock>>
       ELSE /\ stop_flag' = FALSE
            /\ futs' = [i \in 1..Len(Jobs) |-> Future(Jobs[i])]
            /\ clock' = 0
            /\ deadline' = clock' + Duration
            /\ start' = clock'
            /\ orch' = "drain"
            /\ UNCHANGED <<pc, entered>>
    /\ UNCHANGED <<engineVars, result, probe, total_bytes, delivered,
                   produced, punctual, netlog, stopRequested>>
    /\ UNCHANGED <<unitVars, obsVars>>

\* a pool that also runs the work items whose future was cancelled
StartableCancelled == StatesOf("pending") \cup StatesOf("cancelled")

\* The work items a pool thread may run: a thread that takes an item whose
\* future was cancelled drops it.
Startable == StatesOf("pending")

\* worker(), lines 176-179 / 228-231: a free pool thread takes the oldest
\* pending job; it returns 0 at once when the flag is set, it raises when
\* the request cannot be built, otherwise the transfer begins.
WorkerStart ==
    /\ InTransfer
    /\ orch \in {"drain", "cancel", "join"}
    /\ \E j \in Startable :
        /\ \A k \in Startable : j <= k
        /\ Cardinality(StatesOf("running")) < Threads
        /\ IF stop_flag
           THEN /\ futs' = [futs EXCEPT ![j].st = "finished"]
                /\ punctual' = FALSE
                /\ UNCHANGED netlog
           ELSE IF request_raises(heap[best_server].url)
           THEN /\ futs' = [futs EXCEPT ![j].st = "finished", ![j].val = Raised]
                /\ punctual' = FALSE
                /\ UNCHANGED netlog
           ELSE /\ futs' = [futs EXCEPT ![j].st = "running"]
                /\ netlog' = Append(netlog, Phase)
                /\ UNCHANGED punctual
    /\ UNCHANGED <<pc, entered, engineVars, stop_flag, result, probe, orch,
                   total_bytes, delivered, deadline, start, clock,
                   produced, stopRequested>>
    /\ UNCHANGED <<unitVars, obsVars>>

\* worker(), lines 179-182 / 231-234: the transfer returns n bytes, the
\* callback gets n when n is not 0, the job returns n.
WorkerFinish ==
    /\ InTransfer
    /\ \E j \in StatesOf("running") : \E n \in Outcomes(futs[j].job) :
        /\ futs' = [futs EXCEPT ![j].st = "finished", ![j].val = n]
        /\ delivered' = delivered + n
        /\ produced' = produced + n
        /\ punctual' = (punctual /\ ~Expired)
    /\ UNCHANGED <<pc, entered, engineVars, stop_flag, result, probe, orch,
                   total_bytes, deadline, start, clock, netlog,
                   stopRequested>>
    /\ UNCHANGED <<unitVars, obsVars>>

\* Lines 189-198 / 246-254: as_completed hands over a completed future
\* (each once; its result is read only here); the check, then either the
\* cancel loop or the addition.
Drain ==
    /\ InTransfer
    /\ orch = "drain"
    /\ \E j \in StatesOf("finished") :
        /\ futs' = [futs EXCEPT ![j].st = "yielded", ![j].val = 0]
        /\ total_bytes' = Counted(total_bytes, futs[j].val, CheckFails)
        /\ orch' = IF CheckFails THEN "cancel" ELSE orch
    /\ UNCHANGED <<pc, entered, engineVars, stop_flag, result, probe,
                   delivered, deadline, start, clock, produced, punctual,
                   netlog, stopRequested>>
    /\ UNCHANGED <<unitVars, obsVars>>

\* Lines 192-194 / 248-250: the loop `for pending in futs: pending.cancel()`.
\* cancel() does nothing to a future that has started, so the loop's steps
\* are the cancellations of futures still pending when it reaches them
\* (always the oldest pending one, which a free worker may take first).
CancelPending ==
    /\ InTransfer
    /\ orch = "cancel"
    /\ \E j \in StatesOf("pending") :
        /\ \A k \in StatesOf("pending") : j <= k
        /\ futs' = [futs EXCEPT ![j].st = "cancelled"]
    /\ punctual' = FALSE
    /\ UNCHANGED <<pc, entered, engineVars, stop_flag, result, probe, orch,
                   total_bytes, delivered, deadline, start, clock, produced,
                   netlog, stopRequested>>
    /\ UNCHANGED <<unitVars, obsVars>>

\* The loop has passed the last future: break.
Break ==
    /\ InTransfer
    /\ orch = "cancel"
    /\ StatesOf("pending") = {}
    /\ orch' = "join"
    /\ UNCHANGED <<pc, entered, engineVars, stop_flag, result, probe, futs,
                   total_bytes, delivered, deadline, start, clock, produced,
                   punctual, netlog, stopRequested>>
    /\ UNCHANGED <<unitVars, obsVars>>

\* storing the upload speed while resetting the download speed
StoreResetting(res, phase, speed) ==
    IF phase = "download" THEN [res EXCEPT !.download_speed = speed]
    ELSE [res EXCEPT !.upload_speed = speed, !.download_speed = <<0, 1>>]

\* run_test, lines 304-312: the phase's speed goes into the result.
Store(res, phase, speed) ==
    IF phase = "download" THEN [res EXCEPT !.download_speed = speed]
    ELSE [res EXCEPT !.upload_speed = speed]

\* an iteration over completions that never ends
DrainedNever == FALSE

\* as_completed is exhausted: every future was handed over.
Drained == orch = "drain" /\ \A j \in 1..Len(futs) : futs[j].st = "yielded"

\* a pool left without waiting for its threads
PoolLeftRunning == TRUE

\* The end of the with block: shutdown(wait=True) returns when no job is
\* running and none is left to run.
PoolShutDown == StatesOf("running") = {} /\ StatesOf("pending") = {}

\* Lines 187-203 / 244-259: after the loop (exhausted or left by break) the
\* with block ends once the pool has no job left to run, then elapsed and
\* the speed; run_test stores it and goes on.
TransferEnd ==
    /\ InTransfer
    /\ orch = "join" \/ Drained
    /\ PoolShutDown
    /\ LET speed == PhaseSpeed(best_server, total_bytes, clock - start)
       IN result' = Store(result, Phase, speed)
    /\ IF pc = "Downloading"
       THEN Enter("Uploading") /\ orch' = "init"
       ELSE Enter("Complete") /\ orch' = "none"
    /\ futs' = <<>>
    /\ total_bytes' = 0
    /\ deadline' = 0
    /\ start' = 0
    /\ clock' = 0
    /\ delivered' = 0
    /\ produced' = 0
    /\ punctual' = TRUE
    /\ UNCHANGED <<engineVars, stop_flag, probe, netlog, stopRequested>>
    /\ UNCHANGED <<unitVars, obsVars>>

\* Time passes while a transfer phase runs.
Tick ==
    /\ InTransfer
    /\ orch \in {"drain", "cancel", "join"}
    /\ clock + TickStep <= MaxClock
    /\ clock' = clock + TickStep
    /\ UNCHANGED <<pc, entered, engineVars, stop_flag, result, probe, orch,
                   futs, total_bytes, delivered, deadline, start,
                   produced, punctual, netlog, stopRequested>>
    /\ UNCHANGED <<unitVars, obsVars>>

\* stop(), lines 314-316, called by another thread while run_test runs.
Stop ==
    /\ pc \in {"FetchingConfig", "FetchingServers", "ProbingLatency",
               "Downloading", "Uploading"}
    /\ stop_flag' = TRUE
    /\ stopRequested' = TRUE
    /\ UNCHANGED <<pc, entered, engineVars, result, probe, transferVars,
                   netlog>>
    /\ UNCHANGED <<unitVars, obsVars>>

Next ==
    \/ RunTest
    \/ GetConfiguration
    \/ GetServers
    \/ PingStart
    \/ PingFinish
    \/ SelectBest
    \/ TransferBegin
    \/ WorkerStart
    \/ WorkerFinish
    \/ Drain
    \/ CancelPending
    \/ Break
    \/ TransferEnd
    \/ Tick
    \/ Stop

Spec == Init /\ [][Next]_vars

TypeOK ==
    /\ pc \in {"Idle", "FetchingConfig", "FetchingServers", "ProbingLatency",
               "Downloading", "Uploading", "Complete", "Failed", "Raised"}
    /\ stop_flag \in BOOLEAN
    /\ orch \in {"none", "init", "drain", "cancel", "join"}

(* ======================= properties of the run ========================= *)

Zero == <<0, 1>>

\* The step in which a transfer phase returns its speed.
PhaseReturns == InTransfer /\ pc' # pc /\ pc' # "Raised"

\* C1: in each transfer phase, the sum of the byte deltas given to the
\* phase's callback equals the byte total the phase's speed is computed
\* from, whatever the interleaving of workers, deadline and cancellation.
C1_DeliveredEqualsCounted ==
    [][PhaseReturns => delivered = total_bytes]_vars

\* C2: once stop() has set the flag during a run, no download or upload
\* worker begins a new transfer for the rest of the run, also in a phase
\* that starts after the flag was set.
C2_NoTransferAfterStop ==
    [][stopRequested =>
         \A k \in (Len(netlog) + 1)..Len(netlog') :
             netlog'[k] \notin {"download", "upload"}]_vars

\* C3: bytes enter a phase's total only in a step in which the orchestrator
\* takes over a completed job and its deadline/cancellation check passes,
\* and then exactly that job's bytes; after the first failed check the
\* total does not change any more, whatever finishes later.
C3_CountedOnlyWhenCheckPasses ==
    [][/\ (total_bytes' # total_bytes /\ ~PhaseReturns) =>
            /\ InTransfer
            /\ orch = "drain"
            /\ ~CheckFails
            /\ \E j \in StatesOf("finished") :
                /\ futs'[j].st = "yielded"
                /\ total_bytes' = total_bytes + ResultBytes(futs[j].val)
       /\ (orch \in {"cancel", "join"} /\ ~PhaseReturns) =>
              total_bytes' = total_bytes]_vars

\* C3 witness: the check has failed and a job that was in flight finished
\* afterwards with bytes that stay out of the total.
C3_Witness ==
    /\ InTransfer
    /\ orch = "join"
    /\ \E j \in StatesOf("finished") : futs[j].val > 0
    /\ delivered > total_bytes

\* C4: while draining, the orchestrator's wait ends at the earlier of the
\* next completion and the deadline: once the deadline has passed, also
\* with transfers still in flight, it can leave the wait without another
\* job completing.
C4_WaitEndsAtDeadline ==
    (InTransfer /\ orch = "drain" /\ Expired /\ StatesOf("running") # {})
        => ENABLED Drain

\* C5: if every download job ran its transfer to an end before the deadline
\* and none failed, the download total is the sum of the bytes of all jobs
\* and the speed is total * 8 / elapsed (12,500,000 bytes over 10 s give
\* 10,000,000 bits/s).
C5_AllPunctualAllCounted ==
    [][(pc = "Downloading" /\ PhaseReturns /\ punctual /\ ~stopRequested) =>
           /\ total_bytes = produced
           /\ result'.download_speed = Speed(produced, clock - start)
           /\ Speed(12500000, 10) = <<10000000 * 10, 10>>]_vars

\* The servers held at the positions of the registry's list.
Held(i) == heap[servers.list[i]]
AfterSelection == pc \in {"Downloading", "Uploading", "Complete"}

\* C6: after probing, the selected server is the candidate with the
\* smallest measured latency, the first such in registry order, among the
\* candidates with a measured latency, and result.ping is that latency;
\* probes returning 20, 10 and 30 ms select the 10 ms server.
C6_BestIsFirstMinimum ==
    /\ AfterSelection =>
        /\ best_server # NoRef
        /\ result.server = best_server
        /\ result.ping = heap[best_server].latency
        /\ \E p \in 1..Len(servers.list) :
            /\ servers.list[p] = best_server
            /\ Held(p).latency # None
            /\ \A q \in 1..Len(servers.list) :
                Held(q).latency # None =>
                    /\ Held(p).latency <= Held(q).latency
                    /\ q < p => Held(p).latency < Held(q).latency
    /\ LET h == [i \in 1..3 |->
                    [Server(i, 0, "ok") EXCEPT
                        !.latency = <<20000, 10000, 30000>>[i]]]
       IN get_best(h, AddAll(ServerList, h, <<1, 2, 3>>)) = 2

\* C6 witness: two candidates were measured and the second one, strictly
\* faster than the first, was selected.
C6_Witness ==
    /\ pc = "Downloading"
    /\ Len(servers.list) = 2
    /\ Held(1).latency # None
    /\ Held(2).latency # None
    /\ Held(2).latency < Held(1).latency
    /\ result.server = servers.list[2]

\* C7: run_test never raises, whatever the transport answers: it always
\* returns a TestResult.
C7_NeverRaises == pc # "Raised"

FailedIn(state) ==
    /\ pc = "Failed"
    /\ entered[Len(entered) - 1] = state

EmptyMeasurements ==
    /\ result.server = NoRef
    /\ result.ping = 0
    /\ result.download_speed = Zero
    /\ result.upload_speed = Zero

\* C8 (as claimed): a run that fails in configuration, server discovery or
\* latency probing returns an empty result: client and server absent, ping
\* and both speeds zero.
C8_FailureGivesEmptyResult ==
    pc = "Failed" => (EmptyMeasurements /\ result.client = <<>>)

\* C8 (amended): a run that fails in configuration returns an empty result;
\* a run that fails in server discovery or latency probing returns a result
\* with server absent, ping and both speeds zero, and client set to the
\* client info of the configuration phase.
C8_FailureKeepsClientOnly ==
    pc = "Failed" =>
        /\ EmptyMeasurements
        /\ FailedIn("FetchingConfig") => result.client = <<>>
        /\ ~FailedIn("FetchingConfig") =>
               (result.client # <<>> /\ result.client = client_info)

\* C8 witness: the run failed in latency probing.
C8_Witness == FailedIn("ProbingLatency") /\ result.client # <<>>

\* C9: once client, server and ping are set, no step of the download or
\* upload phase changes them or the selected server object, and the upload
\* phase leaves the recorded download speed alone.
C9_NoRollback ==
    [][/\ InTransfer =>
            /\ result'.client = result.client
            /\ result'.server = result.server
            /\ result'.ping = result.ping
            /\ heap' = heap
       /\ pc = "Uploading" => result'.download_speed = result.download_speed]_vars

\* C9 witness: the run completed with a download speed on record although
\* the upload phase counted nothing.
C9_Witness ==
    /\ pc = "Complete"
    /\ result.download_speed # Zero
    /\ result.upload_speed = Zero
    /\ result.server # NoRef
    /\ result.client # <<>>

Order ==
    <<"Idle", "FetchingConfig", "FetchingServers", "ProbingLatency",
      "Downloading", "Uploading", "Complete">>
Rank(state) == CHOOSE k \in 1..Len(Order) : Order[k] = state

\* The network operations a state of the run may issue.
NetKinds(state) ==
    CASE state = "FetchingConfig" -> {"config"}
      [] state = "FetchingServers" -> {"servers", "fallback"}
      [] state = "ProbingLatency" -> {"latency"}
      [] state = "Downloading" -> {"download"}
      [] state = "Uploading" -> {"upload"}
      [] OTHER -> {}

\* C10: the states of a run are entered in the order config, discovery,
\* probing, download, upload, complete, one step at a time (so each at most
\* once) and each only when the previous one succeeded; every network
\* operation belongs to the current state, and after a failure none is
\* issued.
C10_PhaseOrder ==
    [][/\ pc' # pc =>
            /\ pc \in Range(Order) /\ pc # "Complete"
            /\ \/ pc' = Order[Rank(pc) + 1]
               \/ pc' = "Failed" /\ Rank(pc) \in 2..4
               \/ pc' = "Raised"
            /\ pc' = "FetchingServers" => client_info' # <<>>
            /\ pc' = "ProbingLatency" => Len(servers'.list) > 0
            /\ pc' = "Downloading" =>
                   (best_server' # NoRef /\ heap'[best_server'].latency # None)
       /\ \A k \in (Len(netlog) + 1)..Len(netlog') : netlog'[k] \in NetKinds(pc)
       /\ Len(netlog') >= Len(netlog)]_vars

\* C10 witness: a run went through every state up to Complete.
C10_Witness == pc = "Complete" /\ entered = Order

\* The network operations a step issues.
Issued(kind) ==
    \E k \in (Len(netlog) + 1)..Len(netlog') : netlog'[k] = kind

\* C11: every worker, the latency probes included, checks the cancellation
\* flag before starting a unit of work: while the flag is set, no latency
\* probe that has not yet started is issued.
C11_NoProbeAfterStop ==
    [][(pc = "ProbingLatency" /\ stop_flag) => ~Issued("latency")]_vars

C13_SelectAfterAllSettled ==
    [][(pc = "ProbingLatency" /\ pc' # pc) =>
           /\ \A i \in 1..Len(probe) : probe[i] = "settled"
           /\ pc' \in {"Downloading", "Failed"}
           /\ pc' = "Failed" <=>
                  \A i \in 1..Len(servers.list) : Held(i).latency = None
           /\ pc' = "Downloading" =>
                  \E p \in 1..Len(servers.list) :
                      /\ best_server' = servers.list[p]
                      /\ Held(p).latency # None
                      /\ \A q \in 1..Len(servers.list) :
                             Held(q).latency # None =>
                                 Held(p).latency <= Held(q).latency]_vars

\* C13 witness: one candidate's probe raised (its URL has no valid port),
\* the other candidate was measured and selected.
C13_Witness ==
    /\ pc = "Downloading"
    /\ \E i \in 1..Len(servers.list) :
           port_raises(Held(i).url) /\ Held(i).latency = None
    /\ best_server # NoRef
    /\ heap[best_server].latency # None

(* ================= direct calls of the registry ======================== *)
(* A ServerList used on its own: servers are added, their latency is     *)
(* written by a measurement, and the three queries are called with        *)
(* arguments drawn from small sets.                                       *)

RegIds == {1, 2}
RegLats == {0, 1}
RegOrigins == {0, 2}
RegLatencies == {None, 10000, 20000}

\* ServerList.add(Server(...))
RegAdd ==
    /\ Len(heap) < MaxHeld
    /\ \E id \in RegIds, lat \in RegLats :
        /\ heap' = Append(heap, Server(id, lat, "ok"))
        /\ servers' = add(servers, heap', Len(heap'))
        /\ call' = [name |-> "add", id |-> id, ref |-> Len(heap')]
        /\ ret' = <<>>
    /\ UNCHANGED <<runVars, m_rtts, d_total, d_chunks>>

\* server.latency = ... (the only writer of latency, engine.py:134)
RegMeasure ==
    /\ \E i \in 1..Len(servers.list), l \in RegLatencies :
        /\ heap[servers.list[i]].latency # l
        /\ heap' = [heap EXCEPT ![servers.list[i]].latency = l]
        /\ call' = [name |-> "measure", ref |-> servers.list[i]]
        /\ ret' = <<>>
    /\ UNCHANGED <<runVars, servers, m_rtts, d_total, d_chunks>>

\* ServerList.get_closest(origin, limit)
RegGetClosest ==
    /\ \E origin \in RegOrigins, limit \in 0..MaxLimit :
        /\ heap' = StoreDistances(heap, servers, origin)
        /\ ret' = get_closest(heap, servers, origin, limit)
        /\ call' = [name |-> "get_closest", origin |-> origin, limit |-> limit]
    /\ UNCHANGED <<runVars, servers, m_rtts, d_total, d_chunks>>

\* ServerList.get_best()
RegGetBest ==
    /\ ret' = get_best(heap, servers)
    /\ call' = [name |-> "get_best"]
    /\ UNCHANGED <<runVars, heap, servers, m_rtts, d_total, d_chunks>>

\* ServerList.get_by_id(id)
RegGetById ==
    /\ \E id \in RegIds :
        /\ ret' = get_by_id(servers, id)
        /\ call' = [name |-> "get_by_id", id |-> id]
    /\ UNCHANGED <<runVars, heap, servers, m_rtts, d_total, d_chunks>>

RegNext ==
    \/ RegAdd
    \/ RegMeasure
    \/ RegGetClosest
    \/ RegGetBest
    \/ RegGetById

RegSpec == Init /\ [][RegNext]_vars

\* The step is a return of the named method.
Returns(name) == call'.name = name

\* C14: get_best returns absent when no held server has a measured
\* latency; otherwise the server of minimum latency among the measured
\* ones, and the one added first when several share the minimum.
C14_GetBestFirstMinimum ==
    [][Returns("get_best") =>
         IF \A i \in 1..Len(servers.list) : Held(i).latency = None
         THEN ret' = NoRef
         ELSE \E p \in 1..Len(servers.list) :
                 /\ ret' = servers.list[p]
                 /\ Held(p).latency # None
                 /\ \A q \in 1..Len(servers.list) :
                        Held(q).latency # None =>
                            /\ Held(p).latency <= Held(q).latency
                            /\ q < p => Held(p).latency < Held(q).latency]_vars

\* C14 witness: get_best returned the first of two servers that share the
\* minimum latency.
C14_Witness ==
    /\ call.name = "get_best"
    /\ Len(servers.list) = 2
    /\ ret = servers.list[1]
    /\ Held(1).latency # None
    /\ Held(2).latency = Held(1).latency

\* The distance of a returned or held server from the call's origin.
DistanceFrom(origin, r) == distance_to(origin, heap'[r].lat)

\* C15: get_closest returns servers in non-decreasing distance from the
\* origin, and no held server left out is strictly closer than a returned
\* one, for all locations, a server exactly at the origin included.
C15_ClosestSortedByDistance ==
    [][Returns("get_closest") =>
         /\ \A i, j \in 1..Len(ret') :
                i < j => DistanceFrom(call'.origin, ret'[i])
                             <= DistanceFrom(call'.origin, ret'[j])
         /\ \A o \in Range(servers.list) \ Range(ret') :
                \A i \in 1..Len(ret') :
                    DistanceFrom(call'.origin, o)
                        >= DistanceFrom(call'.origin, ret'[i])]_vars

\* C16: for every limit >= 0 get_closest returns min(limit, number of held
\* servers) entries: never more than limit, and as many as are held when
\* fewer than limit are held.
C16_ClosestLength ==
    [][Returns("get_closest") =>
         /\ Len(ret') <= call'.limit
         /\ Len(ret') = Min(call'.limit, Len(servers.list))
         /\ Len(servers.list) < call'.limit =>
                Len(ret') = Len(servers.list)]_vars

\* C16 witness: two servers held, one asked for, one returned.
C16_Witness ==
    /\ call.name = "get_closest"
    /\ Len(servers.list) = 2
    /\ call.limit = 1
    /\ Len(ret) = 1

\* The positions of the list holding a server with this id.
WithId(sl, h, id) == {i \in 1..Len(sl.list) : h[sl.list[i]].id = id}

\* C17: after add(server) with an id already held the new server has
\* replaced the old one: one server of that id in the list and in the
\* index, the length has not grown, and get_by_id and iteration see only
\* the new server.
C17_AddReplacesDuplicate ==
    [][(Returns("add") /\ WithId(servers, heap, call'.id) # {}) =>
         /\ Len(servers'.list) = Len(servers.list)
         /\ \A i \in WithId(servers', heap', call'.id) :
                servers'.list[i] = call'.ref
         /\ get_by_id(servers', call'.id) = call'.ref]_vars

(* ================= direct calls of the transport client ================ *)
(* The four primitives of HTTPClient called on their own, with the URL,   *)
(* the number of attempts and the transport's behaviour drawn from small  *)
(* sets. measure_latency and download_file are followed step by step.     *)

TransportNames == {"get", "measure_latency", "download_file", "upload_data"}

\* No direct call is running.
CallIdle ==
    IF call.name \in TransportNames THEN call.pos # "running" ELSE TRUE

Call(name, url, n, pos) ==
    [name |-> name, url |-> url, attempts |-> n, pos |-> pos, how |-> ""]

\* Round-trip times of one attempt (ms), None for a failed attempt.
AttemptOutcomes == {None, 20, 40}

\* Sizes of the chunks resp.read(10240) may return.
ChunkSizes == {1, CHUNK_SIZE}

\* HTTPClient.get(url)
HttpGet ==
    /\ CallIdle
    /\ \E url \in UrlKinds, fault \in BOOLEAN :
        /\ call' = Call("get", url, 0, "returned")
        /\ ret' = <<get(url, "xml", fault)>>
    /\ m_rtts' = <<>>
    /\ d_total' = 0
    /\ d_chunks' = <<>>
    /\ UNCHANGED <<runVars, heap, servers>>

\* measure_latency, lines 72-78: the URL is parsed outside any try block.
MeasureBegin ==
    /\ CallIdle
    /\ \E url \in UrlKinds, n \in 1..MaxAttempts :
        call' = Call("measure_latency", url, n,
                     IF port_raises(url) THEN "raised" ELSE "running")
    /\ ret' = <<>>
    /\ m_rtts' = <<>>
    /\ d_total' = 0
    /\ d_chunks' = <<>>
    /\ UNCHANGED <<runVars, heap, servers>>

\* measure_latency, lines 80-93: one more round trip, timed or failed.
MeasureAttempt ==
    /\ call.name = "measure_latency"
    /\ call.pos = "running"
    /\ Len(m_rtts) < call.attempts
    /\ \E t \in AttemptOutcomes : m_rtts' = Append(m_rtts, t)
    /\ UNCHANGED <<runVars, heap, servers, call, d_total, d_chunks, ret>>

\* measure_latency, lines 95-99.
MeasureReturn ==
    /\ call.name = "measure_latency"
    /\ call.pos = "running"
    /\ Len(m_rtts) = call.attempts
    /\ ret' = <<measure_latency(m_rtts)>>
    /\ call' = [call EXCEPT !.pos = "returned"]
    /\ UNCHANGED <<runVars, heap, servers, m_rtts, d_total, d_chunks>>

\* download_file, lines 106-111: the Request is built outside the try block.
DownloadBegin ==
    /\ CallIdle
    /\ \E url \in UrlKinds :
        call' = Call("download_file", url, 0,
                     IF request_raises(url) THEN "raised" ELSE "running")
    /\ ret' = <<>>
    /\ m_rtts' = <<>>
    /\ d_total' = 0
    /\ d_chunks' = <<>>
    /\ UNCHANGED <<runVars, heap, servers>>

\* download_file, lines 114-118: a chunk that is not empty was read.
DownloadRead ==
    /\ call.name = "download_file"
    /\ call.pos = "running"
    /\ ~port_raises(call.url)
    /\ Len(d_chunks) < MaxChunks
    /\ \E c \in ChunkSizes :
        /\ d_total' = d_total + c
        /\ d_chunks' = Append(d_chunks, c)
    /\ UNCHANGED <<runVars, heap, servers, call, m_rtts, ret>>

\* download_file, lines 116-121: an empty chunk (EOF) or an exception ends
\* the loop; a URL that cannot be opened fails before any chunk.
DownloadEnd ==
    /\ call.name = "download_file"
    /\ call.pos = "running"
    /\ \E how \in {"eof", "error"} :
        /\ port_raises(call.url) => how = "error"
        /\ ret' = <<DownloadReturn(d_total, how)>>
        /\ call' = [call EXCEPT !.pos = "returned", !.how = how]
    /\ UNCHANGED <<runVars, heap, servers, m_rtts, d_total, d_chunks>>

\* HTTPClient.upload_data(url, data): the Request is built outside the try
\* block; the payload is represented by its length.
HttpUpload ==
    /\ CallIdle
    /\ \E url \in UrlKinds, i \in 1..Len(Payloads), ok \in BOOLEAN :
        IF request_raises(url)
        THEN /\ call' = Call("upload_data", url, 0, "raised")
             /\ ret' = <<>>
        ELSE /\ call' = Call("upload_data", url, 0, "returned")
             /\ ret' = <<upload_data(Payloads[i], ok /\ ~port_raises(url))>>
    /\ m_rtts' = <<>>
    /\ d_total' = 0
    /\ d_chunks' = <<>>
    /\ UNCHANGED <<runVars, heap, servers>>

HttpNext ==
    \/ HttpGet
    \/ MeasureBegin
    \/ MeasureAttempt
    \/ MeasureReturn
    \/ DownloadBegin
    \/ DownloadRead
    \/ DownloadEnd
    \/ HttpUpload

HttpSpec == Init /\ [][HttpNext]_vars

\* The step in which the named primitive returns a value.
ReturnsValue(name) ==
    /\ call'.name = name
    /\ call.name = name
    /\ call.pos = "running"
    /\ call'.pos = "returned"

\* Sum of the timings of the round trips made, a failed one counted as the
\* sentinel of 3,600,000 ms.
SentinelSum ==
    SumSeq([i \in 1..Len(m_rtts) |->
               IF m_rtts[i] = None THEN 3600000 ELSE m_rtts[i]])

\* v * d - s * 1000 for a value v in thousandths, computed on the remainder
\* of s by d so that no product leaves the 32-bit range.
Excess(v, s, d) == (v - (s \div d) * 1000) * d - (s % d) * 1000

AllAttemptsFailed == \A i \in 1..Len(m_rtts) : m_rtts[i] = None

\* C18 (as claimed): measure_latency with n attempts makes n round trips one
\* after the other, counts a failed one as 3,600,000 ms, returns absent
\* exactly when all failed and otherwise exactly sum(timings) / (2 * n).
\* (Latencies are in thousandths of a millisecond.)
C18_LatencyExactQuotient ==
    [][ReturnsValue("measure_latency") =>
         /\ Len(m_rtts) = call.attempts
         /\ (ret'[1] = None) <=> AllAttemptsFailed
         /\ ret'[1] # None =>
                Excess(ret'[1], SentinelSum, 2 * call.attempts) = 0]_vars

\* C18 (amended): as above, but the value returned is sum(timings) / (2 * n)
\* rounded to three decimal places: it is a whole number of thousandths and
\* differs from the quotient by at most half a thousandth.
C18_LatencyRoundedQuotient ==
    [][ReturnsValue("measure_latency") =>
         /\ Len(m_rtts) = call.attempts
         /\ (ret'[1] = None) <=> AllAttemptsFailed
         /\ ret'[1] # None =>
                2 * Abs(Excess(ret'[1], SentinelSum, 2 * call.attempts))
                    <= 2 * call.attempts]_vars

\* C18 witness: three attempts, one failed, and a quotient that is not a
\* whole number of thousandths was returned.
C18_Witness ==
    /\ call.name = "measure_latency"
    /\ call.pos = "returned"
    /\ call.attempts = 3
    /\ \E i \in 1..Len(m_rtts) : m_rtts[i] = None
    /\ ret[1] # None
    /\ Excess(ret[1], SentinelSum, 2 * call.attempts) # 0

\* C19: none of get, measure_latency, download_file and upload_data raises,
\* whatever the URL and the transport do; every failure is a return value.
C19_TransportNeverRaises ==
    call.name \in TransportNames => call.pos # "raised"

\* C20: download_file returns the total size of the chunks read before EOF
\* or before the first error (k bytes read before an error give k, not 0),
\* and the orchestrator adds that return value to the phase's total as it
\* does for a job that reached EOF.
C20_PartialDownloadCounts ==
    [][ReturnsValue("download_file") =>
         /\ ret'[1] = SumSeq(d_chunks)
         /\ ret'[1] = download_file(d_chunks)
         /\ Counted(0, ret'[1], FALSE) = SumSeq(d_chunks)]_vars

\* C20 witness: two chunks were read, then the stream failed, and the size
\* of both was returned.
C20_Witness ==
    /\ call.name = "download_file"
    /\ call.pos = "returned"
    /\ call.how = "error"
    /\ Len(d_chunks) = 2
    /\ ret[1] = d_chunks[1] + d_chunks[2]

(* ===================== termination of the phases ======================= *)

\* run_test at line 303, about to call test_download: the client is at
\* latitude 0, the directory listed two servers, both were measured and the
\* nearer one is also the faster; stop() may have been called already.
PhaseInit ==
    LET doc == << Rec(1, 2, "ok"), Rec(2, 1, "ok") >>
        h0 == ParsedHeap(doc)
        parsed == AddAll(ServerList, h0, ParsedRefs(doc))
        h1 == StoreDistances(h0, parsed, 0)
        kept == AddAll(ServerList, h1,
                       get_closest(h0, parsed, 0, MAX_SERVERS_TO_TEST))
        h2 == [h1 EXCEPT ![1].latency = measure_latency(<<40, 40, 40>>),
                         ![2].latency = measure_latency(<<20, 20, 20>>)]
        best == get_best(h2, kept)
    IN /\ Observed("none")
       /\ NoWindow
       /\ pc = "Downloading"
       /\ client_info = << [lat |-> 0] >>
       /\ heap = h2
       /\ servers = kept
       /\ best_server = best
       /\ stop_flag \in BOOLEAN
       /\ stopRequested = stop_flag
       /\ result = [WithClient(TestResult, client_info) EXCEPT
                        !.server = best,
                        !.ping = LatencyOrZero(h2[best].latency)]
       /\ probe = <<"settled", "settled">>
       /\ orch = "init"
       /\ futs = <<>>
       /\ total_bytes = 0
       /\ delivered = 0
       /\ deadline = 0
       /\ start = 0
       /\ clock = 0
       /\ netlog = <<"config", "servers", "latency", "latency">>
       /\ produced = 0
       /\ entered = SubSeq(Order, 1, 5)
       /\ punctual = TRUE
       /\ call = NoCall
       /\ m_rtts = <<>>
       /\ d_total = 0
       /\ d_chunks = <<>>
       /\ ret = <<>>

\* The steps of test_download and test_upload, with time and stop().
PhaseNext ==
    \/ TransferBegin
    \/ WorkerStart
    \/ WorkerFinish
    \/ Drain
    \/ CancelPending
    \/ Break
    \/ TransferEnd
    \/ Tick
    \/ Stop

\* The pool threads and the orchestrator keep running, and a transfer that
\* was started returns (the transport's timeout).
Fairness ==
    /\ WF_vars(TransferBegin)
    /\ WF_vars(WorkerStart)
    /\ WF_vars(WorkerFinish)
    /\ WF_vars(Drain)
    /\ WF_vars(CancelPending)
    /\ WF_vars(Break)
    /\ WF_vars(TransferEnd)

FairSpec == PhaseInit /\ [][PhaseNext]_vars /\ Fairness

\* Futures whose job was taken by a pool thread.
Started == {j \in 1..Len(futs) : futs[j].st \in {"running", "finished", "yielded"}}

\* The download job list holds (number of sizes) x 4 jobs, the list of a
\* phase is complete when the first job is submitted and is not extended
\* afterwards, and no more jobs are started than it holds.
FixedJobList ==
    /\ Len(Urls(DOWNLOAD_SIZES)) = Len(DOWNLOAD_SIZES) * 4
    /\ (InTransfer /\ orch \in {"drain", "cancel", "join"}) =>
           /\ Len(futs) = Len(Jobs)
           /\ \A j \in 1..Len(futs) : futs[j].job = Jobs[j]
           /\ Cardinality(Started) <= Len(Jobs)

\* C21: the job list of a phase is fixed (for the download, sizes x 4 jobs,
\* built before any job is submitted and never extended), and, provided
\* every transfer that was started returns, the download phase and the
\* upload phase each come to an end, having started at most the jobs of
\* their list.
C21_FixedListAndTermination ==
    /\ []FixedJobList
    /\ (pc = "Downloading") ~> (pc # "Downloading")
    /\ (pc = "Uploading") ~> (pc # "Uploading")

\* C21 witness: every job of the download list was started and handed
\* over; the phase is about to return.
C21_Witness ==
    /\ pc = "Downloading"
    /\ Drained
    /\ Len(futs) = Len(DownloadJobs)
    /\ Cardinality(Started) = Len(futs)

(* ===================== the upload payload builder ====================== *)

\* _make_upload_payload(size) called with a size drawn from 0..MaxPayloadSize;
\* nth tells successive calls apart.
MakePayload ==
    /\ \E size \in 0..MaxPayloadSize :
        /\ call' = [name |-> "make_upload_payload", size |-> size,
                     nth |-> IF call.name = "make_upload_payload"
                             THEN 1 - call.nth ELSE 0]
        /\ ret' = <<make_upload_payload(size)>>
    /\ UNCHANGED <<runVars, heap, servers, m_rtts, d_total, d_chunks>>

PayloadSpec == Init /\ [][MakePayload]_vars

\* The payload is the prefix followed by the filler alphabet repeated.
PrefixThenFiller(b) ==
    /\ Len(b) >= 9
    /\ SubSeq(b, 1, 9) = <<"c", "o", "n", "t", "e", "n", "t", "1", "=">>
    /\ \A i \in 10..Len(b) : b[i] = chars[((i - 10) % 36) + 1]

\* Two calls in a row with the same size return the same bytes.
SameSizeSameBytes ==
    (call.name = "make_upload_payload" /\ call.size = call'.size) => ret' = ret

C23_UploadCountsAcknowledged ==
    [][/\ \A i \in 1..Len(Payloads) : \A ok \in BOOLEAN :
              /\ (upload_data(Payloads[i], ok) = Payloads[i]) <=> ok
              /\ ~ok => upload_data(Payloads[i], ok) = 0
       /\ (pc # "Uploading" /\ pc' = "Uploading") => total_bytes' = 0
       /\ (pc = "Uploading" /\ ~PhaseReturns) =>
              /\ \A j \in 1..Len(futs) :
                     (futs[j].st = "running" /\ futs'[j].st = "finished") =>
                         futs'[j].val \in {0, futs[j].job}
              /\ \A j \in 1..Len(futs) :
                     (futs[j].st = "finished" /\ futs'[j].st = "yielded") =>
                         total_bytes' =
                             IF CheckFails THEN total_bytes
                             ELSE total_bytes + ResultBytes(futs[j].val)
              /\ total_bytes' # total_bytes =>
                     \E j \in StatesOf("finished") :
                         /\ futs'[j].st = "yielded"
                         /\ futs[j].val = futs[j].job
                         /\ total_bytes' = total_bytes + futs[j].job]_vars

\* C23 witness: one successful upload was counted and one upload that
\* failed or was skipped added nothing.
C23_Witness ==
    /\ pc = "Uploading"
    /\ \E j \in StatesOf("yielded") : total_bytes = futs[j].job
    /\ total_bytes > 0

(* ============================ phase speed ============================== *)

\* C24: a transfer phase returns (counted bytes x 8) / elapsed, elapsed
\* being the time since the phase started, and 0 when nothing was counted
\* or elapsed <= 0; the speed is never negative, and it is 0 when no server
\* was selected.
C24_SpeedFormula ==
    [][/\ PhaseReturns =>
            LET sp == IF pc = "Downloading" THEN result'.download_speed
                      ELSE result'.upload_speed
                elapsed == clock - start
            IN /\ (total_bytes = 0 \/ elapsed <= 0) => sp = Zero
               /\ (total_bytes > 0 /\ elapsed > 0) =>
                      sp = <<total_bytes * 8, elapsed>>
               /\ sp[1] >= 0 /\ sp[2] > 0
               /\ \A t \in 0..2 : \A e \in -1..2 :
                     /\ PhaseSpeed(NoRef, t, e) = Zero
                     /\ (t = 0 \/ e <= 0) => PhaseSpeed(1, t, e) = Zero
                     /\ (t > 0 /\ e > 0) => PhaseSpeed(1, t, e) = <<t * 8, e>>
       /\ (InTransfer /\ orch = "init" /\ orch' = "drain") => start' = clock'
       /\ (InTransfer /\ orch # "init" /\ ~PhaseReturns) => start' = start]_vars

\* C24 witness: the download phase has returned a speed that is not 0.
C24_Witness ==
    /\ pc = "Uploading"
    /\ orch = "init"
    /\ result.download_speed[1] > 0
    /\ result.download_speed[2] > 0

(* ========================== server discovery =========================== *)

\* The steps of discovery that got the answers r1 (primary), r2 (fallback).
Discovery(r1, r2) == GetServersWith(r1, r2)

\* Position in the log of the first request of a kind this step issued.
FirstIssued(kind) ==
    CHOOSE k \in (Len(netlog) + 1)..Len(netlog') : netlog'[k] = kind

\* C25: the fallback directory endpoint is requested if and only if the
\* primary fetch failed or returned no data, and never before the primary;
\* discovery reports failure when both fetches fail.
C25_FallbackOnlyAfterPrimaryFails ==
    [][pc = "FetchingServers" =>
       \A r1 \in DirectoryResponses, r2 \in DirectoryResponses :
          Discovery(r1, r2) =>
             /\ Issued("servers")
             /\ Issued("fallback") <=> (~r1.ok \/ r1.kind = "empty")
             /\ Issued("fallback") =>
                    FirstIssued("servers") < FirstIssued("fallback")
             /\ Len(netlog') <= Len(netlog) + 2
             /\ ((~r1.ok \/ r1.kind = "empty") /\ (~r2.ok \/ r2.kind = "empty"))
                    => pc' = "Failed"]_vars

\* C25 witness: the primary failed, the fallback was requested after it
\* and gave the servers the run went on with.
C25_Witness ==
    /\ pc = "ProbingLatency"
    /\ netlog = <<"config", "servers", "fallback">>
    /\ Len(servers.list) = 2

\* The positions of a document whose id and latitude are both numeric.
NumericRecords(doc) ==
    {i \in 1..Len(doc) : doc[i].id # BadNum /\ doc[i].lat # BadNum}

Increasing(seq) == \A i \in 1..Len(seq) : \A j \in 1..Len(seq) :
                       i < j => seq[i] < seq[j]

\* C26: for a server directory mixing well-formed and malformed records,
\* discovery never aborts: the registry holds exactly the well-formed
\* records, in document order before the closest-N filter, and discovery
\* fails only if no well-formed record remains.
C26_BadRecordsSkippedOneByOne ==
    [][\A r1 \in DirectoryResponses, r2 \in DirectoryResponses :
          LET resp == IF Usable(r1) THEN r1 ELSE r2
              parsed == AddAll(ServerList, ParsedHeap(resp.doc),
                               ParsedRefs(resp.doc))
          IN (Discovery(r1, r2) /\ Usable(resp) /\ resp.kind = "xml") =>
                /\ Range(parsed.list) = NumericRecords(resp.doc)
                /\ Increasing(parsed.list)
                /\ pc' \in {"ProbingLatency", "Failed"}
                /\ pc' = "Failed" <=> NumericRecords(resp.doc) = {}
                /\ pc' = "ProbingLatency" =>
                       Range(servers'.list) = NumericRecords(resp.doc)]_vars

(* ============================ byte totals ============================== *)

\* C27: a completed run's TestResult carries the phase byte totals:
\* bytes_received is what the download phase counted and bytes_sent what
\* the upload phase counted.
C27_ResultCarriesByteTotals ==
    [][/\ (pc = "Downloading" /\ PhaseReturns) =>
              result'.bytes_received = total_bytes
       /\ (pc = "Uploading" /\ PhaseReturns) =>
              /\ result'.bytes_sent = total_bytes
              /\ result'.bytes_received = result.bytes_received]_vars

(* ===================== run_test seen by a front end ==================== *)
(* run_test's status messages and the workers' progress callbacks, with    *)
(* the callbacks of gui.py or of cli.py attached. A message is the set of  *)
(* keywords its lower-cased text contains; the engine's own calls return   *)
(* what the step is given.                                                 *)

Keywords == {"testing", "download", "upload", "complete"}

\* Keywords the ISP / IP text of the configuration may contain.
IspWords == {{}, {"download"}, {"upload"}, {"complete"}}

\* Keywords the sponsor / name text of the best server may contain.
SponsorWords == {{}, {"complete"}, {"testing", "download"}}

Frontends == {"gui", "cli"}

\* run_test's messages, lines 276-311.
MsgRetrievingConfig == {}
MsgConfigFailed == {}
MsgTestingFrom(isp) == {"testing"} \cup isp
MsgRetrievingServers == {}
MsgServersFailed == {}
MsgSelecting == {}
MsgNoBest == {}
MsgHostedBy(sponsor) == sponsor
MsgTestingDownload == {"testing", "download"}
MsgDownload == {"download"}
MsgTestingUpload == {"testing", "upload"}
MsgUpload == {"upload"}
MsgComplete == {"complete"}

\* The branch of the if / elif chain a message takes (cli.py 163-180,
\* gui.py 217-226).
Branch(words) ==
    IF {"download", "testing"} \subseteq words THEN "download"
    ELSE IF {"upload", "testing"} \subseteq words THEN "upload"
    ELSE IF "complete" \in words THEN "complete"
    ELSE "other"

\* SpeedTestGUI._on_status
gui_on_status(g, words) ==
    CASE Branch(words) = "download" ->
            [g EXCEPT !.dl_bytes = 0, !.phase = "download"]
      [] Branch(words) = "upload" ->
            [g EXCEPT !.ul_bytes = 0, !.phase = "upload"]
      [] Branch(words) = "complete" -> [g EXCEPT !.phase = "idle"]
      [] OTHER -> g

\* cli.run.on_status: a new LiveBar starts with _bytes = 0.
cli_on_status(c, words) ==
    CASE Branch(words) = "download" ->
            [c EXCEPT !.spinner = FALSE, !.dl_bar = 0]
      [] Branch(words) = "upload" ->
            [c EXCEPT !.spinner = FALSE, !.ul_bar = 0]
      [] Branch(words) = "complete" -> [c EXCEPT !.spinner = FALSE]
      [] OTHER -> [c EXCEPT !.spinner = TRUE]

\* The counter a message resets, for the sum of the deltas given since.
Reset(d, words) ==
    CASE Branch(words) = "download" -> [d EXCEPT !.download = 0]
      [] Branch(words) = "upload" -> [d EXCEPT !.upload = 0]
      [] OTHER -> d

\* The front end's state after status_cb has been called with each
\* message in turn.
RECURSIVE GuiAfter(_, _)
GuiAfter(g, msgs) ==
    IF msgs = <<>> THEN g
    ELSE GuiAfter(gui_on_status(g, msgs[1]), Tail(msgs))

RECURSIVE CliAfter(_, _)
CliAfter(c, msgs) ==
    IF msgs = <<>> THEN c
    ELSE CliAfter(cli_on_status(c, msgs[1]), Tail(msgs))

RECURSIVE DeltasAfter(_, _)
DeltasAfter(d, msgs) ==
    IF msgs = <<>> THEN d ELSE DeltasAfter(Reset(d, msgs[1]), Tail(msgs))

\* status(msg) for each message of a step that takes run_test to `state`:
\* the callback runs in run_test's thread before status returns.
Emit(msgs, state) ==
    /\ status' = status \o [i \in 1..Len(msgs) |->
                               [words |-> msgs[i], at |-> state]]
    /\ gui' = IF frontend = "gui" THEN GuiAfter(gui, msgs) ELSE gui
    /\ cli' = IF frontend = "cli" THEN CliAfter(cli, msgs) ELSE cli
    /\ deltas' = DeltasAfter(deltas, msgs)
    /\ Enter(state)

obsFrame == <<engineVars, stop_flag, result, probe, transferVars, netlog,
              stopRequested, unitVars, frontend, appVars>>

ObsInit == Fresh /\ NoWindow /\ \E by \in Frontends : Observed(by)

\* run_test, line 276
ObsRunTest ==
    /\ pc = "Idle"
    /\ Emit(<<MsgRetrievingConfig>>, "FetchingConfig")
    /\ UNCHANGED <<obsFrame, cb, jobs_left>>

\* run_test, lines 277-284
ObsGetConfiguration ==
    /\ pc = "FetchingConfig"
    /\ \E ok \in BOOLEAN, isp \in IspWords :
          IF ok
          THEN Emit(<<MsgTestingFrom(isp), MsgRetrievingServers>>,
                    "FetchingServers")
          ELSE Emit(<<MsgConfigFailed>>, "Failed")
    /\ UNCHANGED <<obsFrame, cb, jobs_left>>

\* run_test, lines 285-289
ObsGetServers ==
    /\ pc = "FetchingServers"
    /\ \E ok \in BOOLEAN :
          IF ok THEN Emit(<<MsgSelecting>>, "ProbingLatency")
          ELSE Emit(<<MsgServersFailed>>, "Failed")
    /\ UNCHANGED <<obsFrame, cb, jobs_left>>

\* run_test, lines 290-303, and the job list of test_download
ObsFindBest ==
    /\ pc = "ProbingLatency"
    /\ \E ok \in BOOLEAN, sponsor \in SponsorWords :
          IF ok
          THEN /\ Emit(<<MsgHostedBy(sponsor), MsgTestingDownload>>,
                       "Downloading")
               /\ jobs_left' = MaxObservedJobs
          ELSE /\ Emit(<<MsgNoBest>>, "Failed")
               /\ UNCHANGED jobs_left
    /\ UNCHANGED <<obsFrame, cb>>

\* worker(), lines 176-182 / 228-234: a free pool thread takes a job, the
\* transfer returns n and, when n is not 0, the thread calls
\* progress_cb(n).
ObsJobReturns ==
    /\ InTransfer
    /\ jobs_left > 0
    /\ \E w \in DOMAIN cb : \E n \in 0..MaxDelta :
        /\ cb[w].pos = "idle"
        /\ jobs_left' = jobs_left - 1
        /\ IF n = 0
           THEN UNCHANGED <<cb, deltas>>
           ELSE /\ cb' = [cb EXCEPT ![w] = [pos |-> "called", n |-> n,
                                            reg |-> 0]]
                /\ deltas' = [deltas EXCEPT ![Phase] = @ + n]
    /\ UNCHANGED <<obsFrame, pc, entered, gui, cli, status>>

\* The counter of the running phase in the GUI.
GuiCounter(g) == IF pc = "Downloading" THEN g.dl_bytes ELSE g.ul_bytes

\* gui.py 208 / 211, self._dl_bytes += n_bytes, first half: the thread
\* reads the attribute.
ObsGuiLoad ==
    /\ InTransfer
    /\ frontend = "gui"
    /\ \E w \in DOMAIN cb :
        /\ cb[w].pos = "called"
        /\ cb' = [cb EXCEPT ![w].pos = "loaded", ![w].reg = GuiCounter(gui)]
    /\ UNCHANGED <<obsFrame, pc, entered, gui, cli, status, deltas, jobs_left>>

\* gui.py 208 / 211, second half: the thread stores the sum.
ObsGuiStore ==
    /\ InTransfer
    /\ frontend = "gui"
    /\ \E w \in DOMAIN cb :
        /\ cb[w].pos = "loaded"
        /\ gui' = IF pc = "Downloading"
                  THEN [gui EXCEPT !.dl_bytes = cb[w].reg + cb[w].n]
                  ELSE [gui EXCEPT !.ul_bytes = cb[w].reg + cb[w].n]
        /\ cb' = [cb EXCEPT ![w] = IdleThread]
    /\ UNCHANGED <<obsFrame, pc, entered, cli, status, deltas, jobs_left>>

\* The LiveBar of the running phase in the CLI.
CliBar(c) == IF pc = "Downloading" THEN c.dl_bar ELSE c.ul_bar

\* cli.py 182-188 with LiveBar.add_bytes (96-98): under the bar's lock the
\* read and the write are one step.
ObsCliAdd ==
    /\ InTransfer
    /\ frontend = "cli"
    /\ \E w \in DOMAIN cb :
        /\ cb[w].pos = "called"
        /\ cli' = IF CliBar(cli) = None THEN cli
                  ELSE IF pc = "Downloading"
                  THEN [cli EXCEPT !.dl_bar = @ + cb[w].n]
                  ELSE [cli EXCEPT !.ul_bar = @ + cb[w].n]
        /\ cb' = [cb EXCEPT ![w] = IdleThread]
    /\ UNCHANGED <<obsFrame, pc, entered, gui, status, deltas, jobs_left>>

\* The pool has been shut down: no thread is inside worker().
PoolJoined == \A w \in DOMAIN cb : cb[w].pos = "idle"

\* test_download / test_upload return (the with block waits for the
\* running workers; jobs cancelled by the deadline or by stop() are never
\* taken), then run_test lines 305-307 or 309-311.
ObsPhaseEnd ==
    /\ InTransfer
    /\ PoolJoined
    /\ IF pc = "Downloading"
       THEN /\ Emit(<<MsgDownload, MsgTestingUpload>>, "Uploading")
            /\ jobs_left' = MaxObservedJobs
       ELSE /\ Emit(<<MsgUpload, MsgComplete>>, "Complete")
            /\ jobs_left' = 0
    /\ UNCHANGED <<obsFrame, cb>>

ObsNext ==
    \/ ObsRunTest
    \/ ObsGetConfiguration
    \/ ObsGetServers
    \/ ObsFindBest
    \/ ObsJobReturns
    \/ ObsGuiLoad
    \/ ObsGuiStore
    \/ ObsCliAdd
    \/ ObsPhaseEnd

ObsSpec == ObsInit /\ [][ObsNext]_vars

\* The counter the attached front end keeps for the running phase.
Counter == IF frontend = "gui" THEN GuiCounter(gui) ELSE CliBar(cli)

\* C28: the running byte counters are accumulated atomically: with the
\* callbacks invoked concurrently by the workers, the front end's counter
\* at the end of a phase is the sum of the deltas delivered since the
\* counter was last reset.
C28_NoLostUpdate ==
    [][ObsPhaseEnd => Counter = deltas[Phase]]_vars

\* Messages emitted so far that take the given branch.
Taking(branch) ==
    {k \in 1..Len(status) : Branch(status[k].words) = branch}

\* C29: in every run a message with both 'testing' and 'download' is
\* emitted exactly once, at the start of the download phase, one with
\* 'testing' and 'upload' exactly once, at the start of the upload phase,
\* and one with 'complete' only at the end, whatever the ISP and sponsor
\* texts are, so that a keyword-matching front end is in a phase exactly
\* when the engine is.
C29_KeywordsFollowPhases ==
    /\ \A k \in 1..Len(status) :
          /\ {"testing", "download"} \subseteq status[k].words
                 => status[k].at = "Downloading"
          /\ {"testing", "upload"} \subseteq status[k].words
                 => status[k].at = "Uploading"
          /\ "complete" \in status[k].words => status[k].at = "Complete"
    /\ Cardinality(Taking("download")) =
          (IF pc \in {"Downloading", "Uploading", "Complete"} THEN 1 ELSE 0)
    /\ Cardinality(Taking("upload")) =
          (IF pc \in {"Uploading", "Complete"} THEN 1 ELSE 0)
    /\ frontend = "gui" =>
          /\ gui.phase = "download" <=> pc = "Downloading"
          /\ gui.phase = "upload" <=> pc = "Uploading"

(* ===================== get_closest's side effects ====================== *)

\* C30: get_closest(origin, limit) writes the distance to origin into
\* every held server, not only the returned ones, overwriting a distance
\* stored for an earlier origin, and leaves the registry's membership,
\* order and id index and every latency unchanged.
C30_ClosestWritesEveryDistance ==
    [][Returns("get_closest") =>
         /\ servers' = servers
         /\ DOMAIN heap' = DOMAIN heap
         /\ \A r \in Range(servers.list) :
               /\ heap'[r].distance =
                      (IF heap[r].lat >= call'.origin
                       THEN heap[r].lat - call'.origin
                       ELSE call'.origin - heap[r].lat)
               /\ heap'[r].latency = heap[r].latency
               /\ heap'[r] = [heap[r] EXCEPT !.distance = heap'[r].distance]]_vars

\* C30 witness: get_closest(2, 1) has returned one of two held servers,
\* and the other one carries its distance to origin 2, which is not its
\* distance to origin 0.
C30_Witness ==
    /\ call.name = "get_closest"
    /\ call.origin = 2
    /\ call.limit = 1
    /\ Len(servers.list) = 2
    /\ Len(ret) = 1
    /\ \E r \in Range(servers.list) :
          /\ r \notin Range(ret)
          /\ heap[r].lat = 0
          /\ heap[r].distance = 2

(* ========================= the Server ordering ========================= *)
(* sorted() applied to the servers of a registry built by adds and         *)
(* latency writes; list.sort compares with __lt__ only and is stable.      *)

\* a comparison of the latency fields with no test for None
lt_unguarded(a, b) == a.latency < b.latency

\* Server.__lt__
lt(a, b) ==
    IF a.latency = None THEN FALSE
    ELSE IF b.latency = None THEN TRUE
    ELSE a.latency < b.latency

\* One insertion of the stable sort: x goes before the first element it
\* is less than.
RECURSIVE InsertSorted(_, _)
InsertSorted(x, s) ==
    IF s = <<>> THEN <<x>>
    ELSE IF lt(x, s[1]) THEN <<x>> \o s
    ELSE <<s[1]>> \o InsertSorted(x, Tail(s))

\* sorted(servers)
RECURSIVE sorted(_)
sorted(s) ==
    IF s = <<>> THEN <<>>
    ELSE InsertSorted(s[Len(s)], sorted(SubSeq(s, 1, Len(s) - 1)))

\* The held servers, in list order.
HeldServers == [i \in 1..Len(servers.list) |-> heap[servers.list[i]]]

\* sorted(server_list)
RegSorted ==
    /\ ret' = sorted(HeldServers)
    /\ call' = [name |-> "sorted"]
    /\ UNCHANGED <<runVars, heap, servers, m_rtts, d_total, d_chunks>>

OrderNext ==
    \/ RegAdd
    \/ RegMeasure
    \/ RegSorted

OrderSpec == Init /\ [][OrderNext]_vars

\* Servers that differ in latency only, one per latency of the model.
OneOfEach == {[Server(1, 0, "ok") EXCEPT !.latency = l] : l \in RegLatencies}

Occurrences(s, x) == Cardinality({i \in 1..Len(s) : s[i] = x})

\* Measured servers in ascending latency, then the unmeasured ones.
MeasuredFirstAscending(s) ==
    \A i \in 1..Len(s) : \A j \in 1..Len(s) :
        i < j => \/ s[j].latency = None
                 \/ (s[i].latency # None /\ s[i].latency <= s[j].latency)

\* C31: the Server ordering puts unset latency last: a < b exactly when a
\* has a latency and b has none or a larger one; the relation is
\* irreflexive and transitive, and sorting a list of servers gives the
\* measured ones in ascending latency followed by all unmeasured ones.
C31_UnsetLatencySortsLast ==
    [][Returns("sorted") =>
         /\ Len(ret') = Len(HeldServers)
         /\ \A i \in 1..Len(HeldServers) :
               Occurrences(ret', HeldServers[i]) = Occurrences(HeldServers, HeldServers[i])
         /\ MeasuredFirstAscending(ret')
         /\ \A a \in OneOfEach : \A b \in OneOfEach :
               /\ lt(a, b) <=> /\ a.latency # None
                               /\ (b.latency = None \/ a.latency < b.latency)
               /\ ~lt(a, a)
               /\ \A c \in OneOfEach : (lt(a, b) /\ lt(b, c)) => lt(a, c)]_vars

\* C31 witness: a registry whose first server is unmeasured and whose
\* second is measured has been sorted: the measured one comes first.
C31_Witness ==
    /\ call.name = "sorted"
    /\ Len(HeldServers) = 2
    /\ HeldServers[1].latency = None
    /\ HeldServers[2].latency # None
    /\ ret = <<HeldServers[2], HeldServers[1]>>

(* ===================== the upload phase's job list ===================== *)
(* test_upload up to the submission of its jobs, for the configured size   *)
(* list and for lists one or two entries shorter or one entry longer. A    *)
(* payload is an object: the number of the call of _make_upload_payload    *)
(* that built it, its size and its length.                                 *)

UploadSizeLists ==
    { UPLOAD_SIZES,
      SubSeq(UPLOAD_SIZES, 1, 5),
      SubSeq(UPLOAD_SIZES, 1, 6),
      UPLOAD_SIZES \o <<2 * 7340032>> }

\* test_upload, lines 215-219
UploadBegin ==
    /\ IF call.name = "test_upload" THEN call.pos = "submitted" ELSE TRUE
    /\ \E sizes \in UploadSizeLists :
        call' = [name |-> "test_upload", pos |-> "payloads", sizes |-> sizes,
                 built |-> <<>>, queue |-> <<>>]
    /\ ret' = <<>>
    /\ UNCHANGED <<runVars, heap, servers, m_rtts, d_total, d_chunks>>

\* Line 224, one element of the list comprehension per step.
UploadBuildPayload ==
    /\ call.name = "test_upload"
    /\ call.pos = "payloads"
    /\ LET up_sizes == UpSizesOf(call.sizes)
           k == Len(call.built) + 1
       IN IF k <= Len(up_sizes)
          THEN call' = [call EXCEPT !.built =
                           Append(@, [obj |-> k, size |-> up_sizes[k],
                                      len |-> PayloadLen(up_sizes[k])])]
          ELSE call' = [call EXCEPT !.pos = "queue"]
    /\ UNCHANGED <<runVars, heap, servers, m_rtts, d_total, d_chunks, ret>>

\* Lines 240-242, one turn of the while loop per step.
UploadExtendQueue ==
    /\ call.name = "test_upload"
    /\ call.pos = "queue"
    /\ IF Len(call.queue) < UPLOAD_JOB_CAP
       THEN call' = [call EXCEPT !.queue =
                        @ \o [i \in 1..Len(call.built) |-> call.built[i].obj]]
       ELSE call' = [call EXCEPT !.pos = "submit"]
    /\ UNCHANGED <<runVars, heap, servers, m_rtts, d_total, d_chunks, ret>>

\* Line 245: one job per element of work_queue.
UploadSubmit ==
    /\ call.name = "test_upload"
    /\ call.pos = "submit"
    /\ call' = [call EXCEPT !.pos = "submitted"]
    /\ ret' = call.queue
    /\ UNCHANGED <<runVars, heap, servers, m_rtts, d_total, d_chunks>>

QueueNext ==
    \/ UploadBegin
    \/ UploadBuildPayload
    \/ UploadExtendQueue
    \/ UploadSubmit

QueueSpec == Init /\ [][QueueNext]_vars

InUpload == call.name = "test_upload"

\* C32: the upload job list, built by replicating the payload set, never
\* holds more than the job cap of 50 jobs.
C32_JobListWithinCap ==
    InUpload => Len(call.queue) <= 50

\* The sizes of the payloads built so far.
BuiltSizes == {call.built[i].size : i \in 1..Len(call.built)}

\* Payloads are built before the job list, never twice for an entry, and
\* every job carries one of the payload objects built.
BuiltOnceAndReused ==
    /\ (InUpload /\ call.pos = "payloads") => call.queue = <<>>
    /\ (InUpload /\ call.pos # "payloads") =>
          /\ \A i \in 1..Len(call.built) : call.built[i].obj = i
          /\ \A j \in 1..Len(call.queue) :
                call.queue[j] = ((j - 1) % Len(call.built)) + 1
    /\ (InUpload /\ call.pos = "submitted") =>
          /\ ret = call.queue
          /\ {ret[j] : j \in 1..Len(ret)} = 1..Len(call.built)

\* C33 (as claimed): the upload phase builds exactly one payload for each
\* distinct size of the configured upload size list, each built once
\* before any job is submitted and reused for every job of that size.
C33_OnePayloadPerConfiguredSize ==
    /\ BuiltOnceAndReused
    /\ (InUpload /\ call.pos # "payloads") =>
          /\ BuiltSizes = Range(call.sizes)
          /\ Len(call.built) = Cardinality(Range(call.sizes))

\* C33 (amended): the upload phase builds exactly one payload for each
\* entry of the configured upload size list from the fifth on, each built
\* once before any job is submitted and reused for every job of that entry.
C33_OnePayloadPerSizeFromFifth ==
    /\ BuiltOnceAndReused
    /\ (InUpload /\ call.pos # "payloads") =>
          /\ Len(call.built) = Len(call.sizes) - 4
          /\ \A i \in 1..Len(call.built) :
                call.built[i].size = call.sizes[i + 4]

\* C33 witness: with the configured sizes the jobs have been submitted:
\* three payloads, for 524288, 1048576 and 7340032 bytes, shared by all
\* the jobs.
C33_Witness ==
    /\ InUpload
    /\ call.pos = "submitted"
    /\ call.sizes = UPLOAD_SIZES
    /\ BuiltSizes = {524288, 1048576, 7340032}
    /\ Len(call.built) = 3
    /\ Len(ret) > Len(call.built)

(* ====================== the closest-N filter =========================== *)
(* get_servers after its parse loop, with a known client location: the     *)
(* registry the adds have built is replaced by its `limit` closest.        *)

\* get_servers, lines 114-120
RegFilter ==
    /\ Len(servers.list) > 0
    /\ \E origin \in RegOrigins, limit \in 0..MaxLimit :
        /\ heap' = StoreDistances(heap, servers, origin)
        /\ servers' = AddAll(ServerList, heap',
                             get_closest(heap, servers, origin, limit))
        /\ call' = [name |-> "get_servers", origin |-> origin,
                    limit |-> limit]
        /\ ret' = <<Len(servers'.list) > 0>>
    /\ UNCHANGED <<runVars, m_rtts, d_total, d_chunks>>

FilterNext ==
    \/ RegAdd
    \/ RegFilter

FilterSpec == Init /\ [][FilterNext]_vars

\* How far the server r is from the origin of the call.
Away(r) == Abs(heap'[r].lat - call'.origin)

\* C34: after get_servers succeeds with a known client location the
\* registry holds between 1 and `limit` servers, they are the closest ones
\* to the client, and each has its distance set.
C34_KeepsTheClosest ==
    [][(Returns("get_servers") /\ ret'[1]) =>
         /\ Len(servers'.list) >= 1
         /\ Len(servers'.list) <= call'.limit
         /\ \A r \in Range(servers'.list) :
               /\ heap'[r].distance # None
               /\ heap'[r].distance = Away(r)
               /\ \A q \in Range(servers.list) \ Range(servers'.list) :
                     Away(q) >= Away(r)]_vars

(* ======================= after the cancel loop ========================= *)

\* The orchestrator has left its loop by break: the check failed and the
\* cancel loop has gone over every future.
AfterCancel == InTransfer /\ orch = "join"

InFlight(j) == j \in 1..Len(futs) /\ futs[j].st = "running"

\* C35: once the orchestrator has detected deadline expiry or cancellation
\* and cancelled the pending jobs, no job that had not started by then
\* begins a transfer, and the jobs in flight run to completion.
C35_NoStartAfterCancel ==
    /\ [](AfterCancel =>
            \A j \in 1..Len(futs) :
               futs[j].st \in {"running", "finished", "yielded", "cancelled"})
    /\ [][(AfterCancel /\ pc' = pc) =>
            /\ ~Issued(Phase)
            /\ \A j \in 1..Len(futs) :
                  /\ futs[j].st = "cancelled" => futs'[j].st = "cancelled"
                  /\ futs[j].st = "running" =>
                        futs'[j].st \in {"running", "finished"}
                  /\ futs'[j].st = "running" => futs[j].st = "running"]_vars
    /\ [][(AfterCancel /\ pc' # pc) => ~\E j \in 1..Len(futs) : InFlight(j)]_vars
    /\ \A j \in 1..(MaxDownloadJobs + MaxUploadJobs) :
          (AfterCancel /\ InFlight(j)) ~> ~InFlight(j)

\* C35 witness: the cancel loop is over, a job it cancelled never ran and
\* another job is still in flight.
C35_Witness ==
    /\ AfterCancel
    /\ \E j \in 1..Len(futs) : futs[j].st = "cancelled"
    /\ \E j \in 1..Len(futs) : futs[j].st = "running"

(* ====================== phases do not overlap ========================== *)

\* C36: transfer phases never overlap: when test_download returns no
\* download transfer is in flight, so no download transfer runs and no
\* download callback fires once the upload phase has begun, and no upload
\* transfer is in flight when run_test returns.
C36_PhasesDoNotOverlap ==
    /\ [](InTransfer => \A j \in 1..Len(futs) : futs[j].job = Jobs[j])
    /\ [](pc \in {"Complete", "Failed"} => futs = <<>>)
    /\ [][/\ PhaseReturns =>
               \A j \in 1..Len(futs) :
                  futs[j].st \in {"finished", "yielded", "cancelled"}
          /\ pc # "Downloading" => ~Issued("download")
          /\ pc \notin {"Downloading", "Uploading"} =>
               (~Issued("upload") /\ delivered' = delivered)
          /\ (pc = "Uploading" /\ pc' = pc /\ delivered' # delivered) =>
               \E j \in 1..Len(futs) :
                  /\ futs[j].st = "running"
                  /\ futs'[j].st = "finished"
                  /\ futs[j].job \in Range(UploadJobs)]_vars

\* C36 witness: the upload phase has a transfer in flight after a download
\* phase that made transfers.
C36_Witness ==
    /\ pc = "Uploading"
    /\ \E j \in 1..Len(futs) : futs[j].st = "running"
    /\ \E k \in 1..Len(netlog) : netlog[k] = "download"
    /\ result.download_speed[1] > 0

(* ========================= TestHistory ================================= *)

\* Timestamps a TestResult can carry (time.time() when it was made).
Timestamps == {0, 1}

\* TestHistory.__init__
TestHistory(max_size) == [max_size |-> max_size, results |-> <<>>, index |-> 0]

\* TestHistory.add that leaves _index where it was
history_add_in_place(h, r) ==
    IF Len(h.results) < h.max_size
    THEN [h EXCEPT !.results = Append(@, r)]
    ELSE [h EXCEPT !.results = [@ EXCEPT ![h.index + 1] = r]]

\* TestHistory.add; _index counts from 0, sequences from 1
history_add(h, r) ==
    IF Len(h.results) < h.max_size
    THEN [h EXCEPT !.results = Append(@, r)]
    ELSE [h EXCEPT !.results = [@ EXCEPT ![h.index + 1] = r],
                   !.index = (h.index + 1) % h.max_size]

\* sorted(..., key=lambda r: r.timestamp, reverse=True): stable, so results
\* of one timestamp keep the order they have in the list
RECURSIVE InsertNewest(_, _)
InsertNewest(r, s) ==
    IF s = <<>> THEN <<r>>
    ELSE IF s[1].timestamp < r.timestamp
         THEN <<r>> \o s
         ELSE <<s[1]>> \o InsertNewest(r, Tail(s))

RECURSIVE NewestFirst(_)
NewestFirst(s) ==
    IF s = <<>> THEN <<>>
    ELSE InsertNewest(s[Len(s)], NewestFirst(SubSeq(s, 1, Len(s) - 1)))

\* TestHistory.get_recent
get_recent(h, count) ==
    IF h.results = <<>> THEN <<>>
    ELSE SubSeq(NewestFirst(h.results), 1, Min(count, Len(h.results)))

\* history = TestHistory(max_size)
HistNew ==
    /\ history = <<>>
    /\ \E m \in 1..MaxHistorySize : history' = <<TestHistory(m)>>
    /\ UNCHANGED <<engineRun, unitVars, app, n_added>>

\* history.add(result); the result is named by the number of the add
HistAdd ==
    /\ history # <<>>
    /\ n_added < MaxAdds
    /\ \E t \in Timestamps :
          history' = <<history_add(history[1],
                                   [id |-> n_added + 1, timestamp |-> t])>>
    /\ n_added' = n_added + 1
    /\ UNCHANGED <<engineRun, unitVars, app>>

\* history.get_recent(count)
HistGetRecent ==
    /\ history # <<>>
    /\ \E count \in 1..MaxHistorySize :
          /\ ret' = get_recent(history[1], count)
          /\ call' = [name |-> "get_recent", count |-> count]
    /\ UNCHANGED <<engineRun, m_rtts, d_total, d_chunks, appVars>>

HistNext ==
    \/ HistNew
    \/ HistAdd
    \/ HistGetRecent

HistSpec == Init /\ [][HistNext]_vars

\* The numbers of the adds whose results the history holds.
HeldAdds(h) == {h.results[i].id : i \in 1..Len(h.results)}

\* The oldest result h holds.
Oldest(h) == CHOOSE a \in HeldAdds(h) : \A b \in HeldAdds(h) : a <= b

\* C37: after n adds to a TestHistory with max_size >= 1 the history holds
\* min(n, max_size) results, never more than max_size, and they are exactly
\* the min(n, max_size) most recently added ones, each once; an add to a
\* full history drops the oldest result it held and nothing else.
C37_KeepsTheMostRecent ==
    /\ [](history # <<>> =>
            LET h == history[1]
                k == Min(n_added, h.max_size)
            IN /\ Len(h.results) = k
               /\ Len(h.results) <= h.max_size
               /\ HeldAdds(h) = (n_added - k + 1)..n_added
               /\ Cardinality(HeldAdds(h)) = k)
    /\ [][(/\ history # <<>>
           /\ n_added' = n_added + 1
           /\ Len(history[1].results) = history[1].max_size) =>
              HeldAdds(history'[1]) =
                 (HeldAdds(history[1]) \ {Oldest(history[1])})
                    \cup {n_added + 1}]_vars

\* C37 witness: a history of two results has wrapped around twice; it holds
\* the last two of five results.
C37_Witness ==
    /\ history # <<>>
    /\ history[1].max_size = 2
    /\ n_added = 5
    /\ HeldAdds(history[1]) = {4, 5}

(* ====================== gui.py: test lifecycle ========================= *)

\* TestHistory(): the default max_size
DEFAULT_HISTORY_SIZE == 100

\* Everything the window's handlers and its run threads leave alone.
windowFrame == <<pc, client_info, best_server, stop_flag, result, probe,
                 transferVars, netlog, stopRequested, entered, frontend,
                 cli, cb, jobs_left, status, deltas, heap, servers,
                 unitVars>>

\* SpeedTestGUI.__init__ has run and mainloop is waiting for events.
GuiInit ==
    /\ Fresh
    /\ Observed("gui")
    /\ app = AppStart
    /\ history = <<TestHistory(DEFAULT_HISTORY_SIZE)>>
    /\ n_added = 0

\* A thread running _run_test, from Thread.start() on.
NewThread == [pos |-> "run_test", outcome |-> "none"]

\* _start_test without its first two lines
start_test_unguarded(a) ==
    [a EXCEPT !.testing = TRUE, !.enabled = FALSE,
              !.threads = Append(@, NewThread)]

\* _start_test, the window's part: return at once while _testing is set,
\* else set it, disable the button and start a thread on _run_test
start_test(a) ==
    IF a.testing THEN a
    ELSE [a EXCEPT !.testing = TRUE, !.enabled = FALSE,
                   !.threads = Append(@, NewThread)]

\* _finish_test, the window's part
finish_test(a) == [a EXCEPT !.testing = FALSE, !.enabled = TRUE]

\* root.after(0, fn, ...): Tk runs the callbacks in the order scheduled
after(a, event) == [a EXCEPT !.queue = Append(@, event)]

\* The callback Tk runs next.
Scheduled(fn) == app.queue # <<>> /\ Head(app.queue).fn = fn

\* Tk has taken the first callback off its queue.
Taken(a) == [a EXCEPT !.queue = Tail(@)]

\* _start_test is called (the button's command) on Tk's thread.
GuiStartTest ==
    /\ app.requests < MaxRequests
    /\ app' = [start_test(app) EXCEPT !.requests = @ + 1]
    /\ gui' = IF app.testing THEN gui
              ELSE [gui EXCEPT !.dl_bytes = 0, !.ul_bytes = 0,
                               !.phase = "idle"]
    /\ UNCHANGED <<windowFrame, history, n_added>>

\* The engine of a run thread calls status_cb: _on_status.
GuiRunStatus ==
    /\ \E i \in 1..Len(app.threads) : app.threads[i].pos = "run_test"
    /\ \E words \in {MsgTestingDownload, MsgTestingUpload, MsgComplete} :
          /\ gui_on_status(gui, words) # gui
          /\ gui' = gui_on_status(gui, words)
    /\ UNCHANGED <<windowFrame, appVars>>

\* _run_test, line 257: run_test returned a result, with or without a
\* server, and _show_results is scheduled.
GuiRunReturns ==
    /\ \E i \in 1..Len(app.threads), server \in BOOLEAN :
          /\ app.threads[i].pos = "run_test"
          /\ app' = [after(app, [fn |-> "_show_results", server |-> server])
                       EXCEPT !.threads[i] =
                                 [pos |-> "finally", outcome |-> "returned"]]
    /\ UNCHANGED <<windowFrame, gui, history, n_added>>

\* _run_test, lines 258-259: SpeedTestEngine() or run_test raised and
\* messagebox.showerror is scheduled.
GuiRunRaises ==
    /\ \E i \in 1..Len(app.threads) :
          /\ app.threads[i].pos = "run_test"
          /\ app' = [after(app, [fn |-> "showerror"])
                       EXCEPT !.threads[i] =
                                 [pos |-> "finally", outcome |-> "raised"]]
    /\ UNCHANGED <<windowFrame, gui, history, n_added>>

\* _run_test, lines 260-261: the finally clause schedules _finish_test and
\* the thread ends.
GuiRunFinally ==
    /\ \E i \in 1..Len(app.threads) :
          /\ app.threads[i].pos = "finally"
          /\ app' = [after(app, [fn |-> "_finish_test"])
                       EXCEPT !.threads[i].pos = "done"]
    /\ UNCHANGED <<windowFrame, gui, history, n_added>>

\* Tk runs _show_results: a result without a server is only reported, any
\* other is added to the history.
GuiShowResults ==
    /\ Scheduled("_show_results")
    /\ app' = Taken(app)
    /\ IF Head(app.queue).server
       THEN /\ \E t \in Timestamps :
                  history' = <<history_add(history[1],
                                   [id |-> n_added + 1, timestamp |-> t])>>
            /\ n_added' = n_added + 1
       ELSE UNCHANGED <<history, n_added>>
    /\ UNCHANGED <<windowFrame, gui>>

\* Tk runs messagebox.showerror.
GuiShowError ==
    /\ Scheduled("showerror")
    /\ app' = Taken(app)
    /\ UNCHANGED <<windowFrame, gui, history, n_added>>

\* Tk runs _finish_test.
GuiFinishTest ==
    /\ Scheduled("_finish_test")
    /\ app' = finish_test(Taken(app))
    /\ gui' = [gui EXCEPT !.phase = "idle"]
    /\ UNCHANGED <<windowFrame, history, n_added>>

GuiNext ==
    \/ GuiStartTest
    \/ GuiRunStatus
    \/ GuiRunReturns
    \/ GuiRunRaises
    \/ GuiRunFinally
    \/ GuiShowResults
    \/ GuiShowError
    \/ GuiFinishTest

\* Tk's main loop runs every callback scheduled with after(), and a thread
\* that has left run_test goes on to its finally clause.
GuiSpec ==
    /\ GuiInit
    /\ [][GuiNext]_vars
    /\ WF_vars(GuiRunFinally)
    /\ WF_vars(GuiShowResults \/ GuiShowError \/ GuiFinishTest)

\* The run threads that have not ended.
ActiveRuns == {i \in 1..Len(app.threads) : app.threads[i].pos # "done"}

\* A _finish_test is waiting in Tk's queue.
FinishScheduled ==
    \E k \in 1..Len(app.queue) : app.queue[k].fn = "_finish_test"

\* A run has returned or raised and its finish handler has not yet run.
RunOver ==
    \/ \E i \in 1..Len(app.threads) : app.threads[i].pos = "finally"
    \/ FinishScheduled

\* C38: in the GUI at most one run is active at a time; a call of
\* _start_test while the testing flag is set changes nothing; the flag is
\* set from the start of a run until that run's _finish_test executes and
\* is cleared by nothing else; after every run, returned or raised, the
\* flag is cleared again, and a call of _start_test with the flag clear
\* starts a run.
C38_OneRunAtATime ==
    /\ [](Cardinality(ActiveRuns) <= 1)
    /\ []((ActiveRuns # {} \/ FinishScheduled) => app.testing)
    /\ [][(app.requests' # app.requests /\ app.testing) =>
             /\ app'.threads = app.threads
             /\ app'.testing = app.testing
             /\ app'.queue = app.queue
             /\ gui' = gui]_vars
    /\ [][(app.requests' # app.requests /\ ~app.testing) =>
             /\ Len(app'.threads) = Len(app.threads) + 1
             /\ app'.testing]_vars
    /\ [][(app.testing /\ ~app'.testing) =>
             /\ Scheduled("_finish_test")
             /\ app'.queue = Tail(app.queue)
             /\ ActiveRuns = {}]_vars
    /\ RunOver ~> ~app.testing

\* C38 witness: a second run is active after a first run that raised, and
\* one of the three calls of _start_test was ignored.
C38_Witness ==
    /\ Len(app.threads) = 2
    /\ app.threads[1] = [pos |-> "done", outcome |-> "raised"]
    /\ app.threads[2].pos = "run_test"
    /\ app.requests = 3
    /\ app.testing

====
